---- MODULE Spec2Model ----
(***************************************************************************)
(* Model of the room resolution and history-export pipeline of trace:      *)
(* get_rooms_info (src/src/lib.rs), get_room_index_by_identifier and       *)
(* export (src/src/export.rs); of the session store SessionsFile and the   *)
(* logout commands (src/src/lib.rs, src/src/main.rs); and of the export    *)
(* and session login commands of src/src/bin/trace-cli.rs.                 *)
(*                                                                         *)
(* Strings are sequences of one-character strings, so that equality,       *)
(* byte-wise ordering and splitting are computed.  Option<T> is a sequence *)
(* of length 0 (None) or 1 (Some(v)).  Vec indices are 0-based as in Rust. *)
(***************************************************************************)
EXTENDS Integers, Sequences, FiniteSets, TLC

VARIABLES
    joined_rooms,           \* client.joined_rooms(): the session's rooms, in enumeration order
    accessible_rooms_info,  \* export: Vec<RoomWithCachedInfo> returned by get_rooms_info
    rooms,                  \* export: the identifiers supplied, in order
    output_path,            \* export: "None" | "Missing" | "Dir" | "NotDir" (the supplied path)
    formats,                \* export: HashSet<ExportOutputFormat>
    pc,                     \* position in export: "start" | "loop" | "fetch" | "write_json" |
                            \* "write_txt" | "done" (and "joined" | "directory" | "resolved")
    next_identifier,        \* number of identifiers the for loop has taken from rooms
    room_identifier,        \* the identifier being processed (Option<String>)
    resolution,             \* result of get_room_index_by_identifier for room_identifier
    server_history,         \* per joined room id: the number of events the server holds
    events,                 \* export: the accumulated batch (event numbers 1..N of the room)
    last_end_token,         \* export: Option<cursor>
    requests,               \* page requests sent for the room being paginated
    writes,                 \* files written so far, in order
    stdout,                 \* lines printed so far, in order
    fs_calls,               \* calls made on the output path, in order
    base_output_filename,   \* Option<String>: what format_export_filename returned
    members,                \* room.get_member_no_sync: per sender id, Option<RoomMember>
    event_index,            \* messages_to_txt: events the for loop has taken
    room_export,            \* messages_to_txt: the String built so far
    user_ids_to_display_names,  \* messages_to_txt: HashMap<String, Option<String>>
    member_lookups,         \* sender ids get_member_no_sync was called for, in order
    json_output,            \* Option<String>: what messages_to_json returned
    page_requests,          \* the page requests sent for the room being paginated, in order
    sessions,               \* SessionsFile.sessions: Vec<Session>
    sessions_disk,          \* content of the sessions file (what serde_json::to_string wrote)
    disk_writes,            \* number of times SessionsFile::write ran
    store_call,             \* Option: the last call on the session store and what it returned
    config_user_id,         \* trace-cli: the user id given on the command line
    config_formats,         \* trace-cli export: the -f flags, in order (Vec<String>)
    cli_pc,                 \* trace-cli: "none" | "export" | "session_login" | "connect" |
                            \* "exporting" | "done"
    cli_calls,              \* trace-cli: calls made on the client library, in order
    cli_result,             \* trace-cli: "Running" | "Ok" | "Err" | "Panic"
    result                  \* "Running" | "Ok" | "ErrFetch" | "ErrRender" | "Panic": how export ended

vars == <<joined_rooms, accessible_rooms_info, rooms, output_path, formats, pc,
          next_identifier, room_identifier, resolution, server_history, events,
          last_end_token, requests, page_requests, writes, stdout, fs_calls, result,
          base_output_filename,
          members, event_index, room_export, user_ids_to_display_names,
          member_lookups, json_output,
          sessions, sessions_disk, disk_writes, store_call,
          config_user_id, config_formats, cli_pc, cli_calls, cli_result>>

\* the state of one render pass
render_vars == <<members, event_index, room_export, user_ids_to_display_names,
                 member_lookups, json_output>>

\* the session store
session_vars == <<sessions, sessions_disk, disk_writes, store_call>>

\* the command being run by trace-cli
cli_vars == <<config_user_id, config_formats, cli_pc, cli_calls, cli_result>>

---------------------------------------------------------------------------
(* Bounds of the model *)

MaxRooms == 3           \* joined rooms in a session
MaxIdentifiers == 2     \* identifiers supplied to one export run
MaxRequests == 3        \* page requests followed for one room

---------------------------------------------------------------------------
(* Strings and options *)

None == <<>>
Some(v) == <<v>>
IsSome(o) == Len(o) = 1
Unwrap(o) == o[1]

\* outside a render pass its state is empty
NoRender ==
    /\ members = <<>>
    /\ event_index = 0
    /\ room_export = <<>>
    /\ user_ids_to_display_names = <<>>
    /\ member_lookups = <<>>
    /\ json_output = None

\* outside the session commands the store is not opened
NoStore ==
    /\ sessions = <<>>
    /\ sessions_disk = <<>>
    /\ disk_writes = 0
    /\ store_call = None

\* export called as a library function: no command line
NoCli ==
    /\ config_user_id = <<>>
    /\ config_formats = <<>>
    /\ cli_pc = "none"
    /\ cli_calls = <<>>
    /\ cli_result = "Running"

\* UTF-8 byte of the characters the model uses (str::cmp compares bytes)
CharCode(c) ==
    CASE c = " " -> 32 [] c = "!" -> 33 [] c = "#" -> 35 [] c = ":" -> 58
      [] c = "N" -> 78
      [] c = "a" -> 97 [] c = "b" -> 98 [] c = "c" -> 99 [] c = "d" -> 100
      [] c = "p" -> 112 [] c = "q" -> 113 [] c = "x" -> 120 [] c = "z" -> 122

ID_A == <<"!", "a", ":", "x">>
ID_B == <<"!", "b", ":", "x">>
ID_C == <<"!", "c", ":", "x">>
ID_D == <<"!", "d", ":", "x">>
ALIAS_P == <<"#", "p", ":", "x">>
ALIAS_Q == <<"#", "q", ":", "x">>
NAME_N == <<"N">>
STR_ZZ == <<"z", "z">>

RECURSIVE StrCmp(_, _)
\* <str as Ord>::cmp: lexicographic on bytes; "Less" | "Equal" | "Greater"
StrCmp(a, b) ==
    IF a = <<>> /\ b = <<>> THEN "Equal"
    ELSE IF a = <<>> THEN "Less"
    ELSE IF b = <<>> THEN "Greater"
    ELSE IF CharCode(Head(a)) < CharCode(Head(b)) THEN "Less"
    ELSE IF CharCode(Head(a)) > CharCode(Head(b)) THEN "Greater"
    ELSE StrCmp(Tail(a), Tail(b))

---------------------------------------------------------------------------
(* lib.rs: RoomWithCachedInfo and get_rooms_info *)

\* struct RoomWithCachedInfo; the room handle is the room id it operates on
RoomWithCachedInfo(id, name, canonical_alias, alt_aliases) ==
    [id |-> id, name |-> name, canonical_alias |-> canonical_alias,
     alt_aliases |-> alt_aliases, room |-> id]

\* a plausible slip: a room with a name (an alias) ordered before one without
RoomCmp_SomeFirst(room_1, room_2) ==
    IF IsSome(room_1.name) /\ IsSome(room_2.name)
        THEN StrCmp(Unwrap(room_1.name), Unwrap(room_2.name))
    ELSE IF IsSome(room_1.name) THEN "Less"
    ELSE IF IsSome(room_2.name) THEN "Greater"
    ELSE IF IsSome(room_1.canonical_alias) /\ IsSome(room_2.canonical_alias)
        THEN StrCmp(Unwrap(room_1.canonical_alias), Unwrap(room_2.canonical_alias))
    ELSE IF IsSome(room_1.canonical_alias) THEN "Less"
    ELSE IF IsSome(room_2.canonical_alias) THEN "Greater"
    ELSE StrCmp(room_1.id, room_2.id)

\* the comparator closure handed to sort_by in get_rooms_info
RoomCmp(room_1, room_2) ==
    IF IsSome(room_1.name) /\ IsSome(room_2.name)
        THEN StrCmp(Unwrap(room_1.name), Unwrap(room_2.name))
    ELSE IF IsSome(room_1.name) THEN "Greater"
    ELSE IF IsSome(room_2.name) THEN "Less"
    ELSE IF IsSome(room_1.canonical_alias) /\ IsSome(room_2.canonical_alias)
        THEN StrCmp(Unwrap(room_1.canonical_alias), Unwrap(room_2.canonical_alias))
    ELSE IF IsSome(room_1.canonical_alias) THEN "Greater"
    ELSE IF IsSome(room_2.canonical_alias) THEN "Less"
    ELSE StrCmp(room_1.id, room_2.id)

RECURSIVE InsertSorted(_, _)
\* x placed after every element of the sorted s that is not Greater than it
InsertSorted(s, x) ==
    IF s = <<>> THEN <<x>>
    ELSE IF RoomCmp(s[Len(s)], x) = "Greater"
        THEN Append(InsertSorted(SubSeq(s, 1, Len(s) - 1), x), s[Len(s)])
    ELSE Append(s, x)

RECURSIVE SortBy(_)
\* slice::sort_by: the stable sort of s under RoomCmp
SortBy(s) ==
    IF s = <<>> THEN <<>>
    ELSE InsertSorted(SortBy(SubSeq(s, 1, Len(s) - 1)), s[Len(s)])

\* get_rooms_info: one entry per joined room, sorted
get_rooms_info(joined) == SortBy(joined)

\* enumerations of at most MaxRooms joined rooms (a room is joined once)
JoinedLists(universe) ==
    UNION {{l \in [1..n -> universe] :
               \A i, j \in 1..n : l[i].id = l[j].id => i = j} : n \in 0..MaxRooms}

---------------------------------------------------------------------------
(* export.rs: get_room_index_by_identifier *)

\* Iterator::position: Option<usize> of the first element whose test is TRUE;
\* tested[i] is the closure's value on the i-th element
Position(tested) ==
    IF \E i \in 1..Len(tested) : tested[i]
    THEN Some((CHOOSE i \in 1..Len(tested) : tested[i] /\ \A j \in 1..(i - 1) : ~tested[j]) - 1)
    ELSE None

\* Iterator::filter(..).collect(): the elements whose test is TRUE, in order
Filter(s, tested) ==
    LET kept == {i \in 1..Len(s) : tested[i]}
        nth(k) == CHOOSE i \in kept : Cardinality({j \in kept : j < i}) = k - 1
    IN  [k \in 1..Cardinality(kept) |-> s[nth(k)]]

Ok(index) == [tag |-> "Ok", index |-> index, ids |-> <<>>]
MultipleRoomsWithSpecifiedName(ids) ==
    [tag |-> "MultipleRoomsWithSpecifiedName", index |-> 0, ids |-> ids]
NoRoomsWithSpecifiedName == [tag |-> "NoRoomsWithSpecifiedName", index |-> 0, ids |-> <<>>]

IdIs(identifier, room_info) == room_info.id = identifier
CanonicalAliasIs(identifier, room_info) ==
    IsSome(room_info.canonical_alias) /\ Unwrap(room_info.canonical_alias) = identifier
AltAliasIs(identifier, room_info) ==
    \E k \in 1..Len(room_info.alt_aliases) : room_info.alt_aliases[k] = identifier
NameIs(identifier, room_info) ==
    IsSome(room_info.name) /\ Unwrap(room_info.name) = identifier

\* a plausible slip: the name lookup tried before the identifier lookups
get_room_index_by_identifier_NameFirst(rooms_info, identifier) ==
    LET by_id == [i \in 1..Len(rooms_info) |-> IdIs(identifier, rooms_info[i])]
        by_canonical == [i \in 1..Len(rooms_info) |-> CanonicalAliasIs(identifier, rooms_info[i])]
        by_alt == [i \in 1..Len(rooms_info) |-> AltAliasIs(identifier, rooms_info[i])]
        by_name == [i \in 1..Len(rooms_info) |-> NameIs(identifier, rooms_info[i])]
        name_matches == Filter(rooms_info, by_name)
    IN  IF Len(name_matches) = 1 THEN Ok(Unwrap(Position(by_name)))
        ELSE IF Len(name_matches) > 1
            THEN MultipleRoomsWithSpecifiedName(
                     [k \in 1..Len(name_matches) |-> name_matches[k].id])
        ELSE IF IsSome(Position(by_id))
            THEN Ok(Unwrap(Position(by_id)))
        ELSE IF IsSome(Position(by_canonical))
            THEN Ok(Unwrap(Position(by_canonical)))
        ELSE IF IsSome(Position(by_alt))
            THEN Ok(Unwrap(Position(by_alt)))
        ELSE NoRoomsWithSpecifiedName

\* a plausible slip: the ambiguity error lists every room of the directory
get_room_index_by_identifier_AllIds(rooms_info, identifier) ==
    LET by_id == [i \in 1..Len(rooms_info) |-> IdIs(identifier, rooms_info[i])]
        by_canonical == [i \in 1..Len(rooms_info) |-> CanonicalAliasIs(identifier, rooms_info[i])]
        by_alt == [i \in 1..Len(rooms_info) |-> AltAliasIs(identifier, rooms_info[i])]
        by_name == [i \in 1..Len(rooms_info) |-> NameIs(identifier, rooms_info[i])]
        name_matches == Filter(rooms_info, by_name)
    IN  IF IsSome(Position(by_id))
            THEN Ok(Unwrap(Position(by_id)))
        ELSE IF IsSome(Position(by_canonical))
            THEN Ok(Unwrap(Position(by_canonical)))
        ELSE IF IsSome(Position(by_alt))
            THEN Ok(Unwrap(Position(by_alt)))
        ELSE IF Len(name_matches) = 0 THEN NoRoomsWithSpecifiedName
        ELSE IF Len(name_matches) = 1 THEN Ok(Unwrap(Position(by_name)))
        ELSE MultipleRoomsWithSpecifiedName(
                 [k \in 1..Len(rooms_info) |-> rooms_info[k].id])

\* a plausible slip: the single name match indexed within name_matches, not rooms_info
get_room_index_by_identifier_IndexInMatches(rooms_info, identifier) ==
    LET by_id == [i \in 1..Len(rooms_info) |-> IdIs(identifier, rooms_info[i])]
        by_canonical == [i \in 1..Len(rooms_info) |-> CanonicalAliasIs(identifier, rooms_info[i])]
        by_alt == [i \in 1..Len(rooms_info) |-> AltAliasIs(identifier, rooms_info[i])]
        by_name == [i \in 1..Len(rooms_info) |-> NameIs(identifier, rooms_info[i])]
        name_matches == Filter(rooms_info, by_name)
    IN  IF IsSome(Position(by_id))
            THEN Ok(Unwrap(Position(by_id)))
        ELSE IF IsSome(Position(by_canonical))
            THEN Ok(Unwrap(Position(by_canonical)))
        ELSE IF IsSome(Position(by_alt))
            THEN Ok(Unwrap(Position(by_alt)))
        ELSE IF Len(name_matches) = 0 THEN NoRoomsWithSpecifiedName
        ELSE IF Len(name_matches) = 1
            THEN Ok(Unwrap(Position([i \in 1..Len(name_matches) |->
                                        NameIs(identifier, name_matches[i])])))
        ELSE MultipleRoomsWithSpecifiedName(
                 [k \in 1..Len(name_matches) |-> name_matches[k].id])

\* a plausible slip: the alt aliases never consulted
get_room_index_by_identifier_NoAltAliases(rooms_info, identifier) ==
    LET by_id == [i \in 1..Len(rooms_info) |-> IdIs(identifier, rooms_info[i])]
        by_canonical == [i \in 1..Len(rooms_info) |-> CanonicalAliasIs(identifier, rooms_info[i])]
        by_name == [i \in 1..Len(rooms_info) |-> NameIs(identifier, rooms_info[i])]
        name_matches == Filter(rooms_info, by_name)
    IN  IF IsSome(Position(by_id))
            THEN Ok(Unwrap(Position(by_id)))
        ELSE IF IsSome(Position(by_canonical))
            THEN Ok(Unwrap(Position(by_canonical)))
        ELSE IF Len(name_matches) = 0 THEN NoRoomsWithSpecifiedName
        ELSE IF Len(name_matches) = 1 THEN Ok(Unwrap(Position(by_name)))
        ELSE MultipleRoomsWithSpecifiedName(
                 [k \in 1..Len(name_matches) |-> name_matches[k].id])

get_room_index_by_identifier(rooms_info, identifier) ==
    LET by_id == [i \in 1..Len(rooms_info) |-> IdIs(identifier, rooms_info[i])]
        by_canonical == [i \in 1..Len(rooms_info) |-> CanonicalAliasIs(identifier, rooms_info[i])]
        by_alt == [i \in 1..Len(rooms_info) |-> AltAliasIs(identifier, rooms_info[i])]
        by_name == [i \in 1..Len(rooms_info) |-> NameIs(identifier, rooms_info[i])]
        name_matches == Filter(rooms_info, by_name)
    IN  IF IsSome(Position(by_id))
            THEN Ok(Unwrap(Position(by_id)))
        ELSE IF IsSome(Position(by_canonical))
            THEN Ok(Unwrap(Position(by_canonical)))
        ELSE IF IsSome(Position(by_alt))
            THEN Ok(Unwrap(Position(by_alt)))
        ELSE IF Len(name_matches) = 0 THEN NoRoomsWithSpecifiedName
        ELSE IF Len(name_matches) = 1 THEN Ok(Unwrap(Position(by_name)))
        ELSE MultipleRoomsWithSpecifiedName(
                 [k \in 1..Len(name_matches) |-> name_matches[k].id])

---------------------------------------------------------------------------
(* export.rs: format_export_filename *)

\* str::split_once(c): Option<(before, after)> around the first c
SplitOnce(s, c) ==
    IF \E i \in 1..Len(s) : s[i] = c
    THEN LET at == CHOOSE i \in 1..Len(s) : s[i] = c /\ \A j \in 1..(i - 1) : s[j] # c
         IN  Some(<<SubSeq(s, 1, at - 1), SubSeq(s, at + 1, Len(s))>>)
    ELSE None

\* a plausible slip: the sigil of the id and of the alias left out of the stem
format_export_filename_NoSigil(room_info) ==
    LET id_parts == Unwrap(SplitOnce(Tail(room_info.id), ":"))
        nonserver_id_component == id_parts[1]
        server == id_parts[2]
        alias_head == Unwrap(SplitOnce(Tail(Unwrap(room_info.canonical_alias)), ":"))[1]
    IN  IF IsSome(room_info.name) /\ IsSome(room_info.canonical_alias)
            THEN Unwrap(room_info.name) \o <<" ", "[">> \o alias_head \o <<",", " ">>
                 \o nonserver_id_component \o <<",", " ">> \o server \o <<"]">>
        ELSE IF IsSome(room_info.name)
            THEN Unwrap(room_info.name) \o <<" ", "[">> \o nonserver_id_component
                 \o <<",", " ">> \o server \o <<"]">>
        ELSE IF IsSome(room_info.canonical_alias)
            THEN alias_head \o <<" ", "[">> \o nonserver_id_component
                 \o <<",", " ">> \o server \o <<"]">>
        ELSE nonserver_id_component \o <<" ", "[">> \o server \o <<"]">>

\* lines 64-72
format_export_filename(room_info) ==
    LET id_parts == Unwrap(SplitOnce(room_info.id, ":"))
        nonserver_id_component == id_parts[1]
        server == id_parts[2]
        alias_head == Unwrap(SplitOnce(Unwrap(room_info.canonical_alias), ":"))[1]
    IN  IF IsSome(room_info.name) /\ IsSome(room_info.canonical_alias)
            THEN Unwrap(room_info.name) \o <<" ", "[">> \o alias_head \o <<",", " ">>
                 \o nonserver_id_component \o <<",", " ">> \o server \o <<"]">>
        ELSE IF IsSome(room_info.name)
            THEN Unwrap(room_info.name) \o <<" ", "[">> \o nonserver_id_component
                 \o <<",", " ">> \o server \o <<"]">>
        ELSE IF IsSome(room_info.canonical_alias)
            THEN alias_head \o <<" ", "[">> \o nonserver_id_component
                 \o <<",", " ">> \o server \o <<"]">>
        ELSE nonserver_id_component \o <<" ", "[">> \o server \o <<"]">>

---------------------------------------------------------------------------
(* export.rs: export *)

limit == 1000        \* messages_options.limit
full_page == 1000    \* a page shorter than this ends the loop

\* numbers of events a room can hold on the server
RoomSizes == {0, 1, 1000, 1001, 2000}
SmallRoomSizes == {0, 1}

ExportRoomIds == {ID_A, ID_B}
ExportIdentifiers == {ID_A, NAME_N}
ExportRooms ==
    {RoomWithCachedInfo(id, n, None, <<>>) : id \in ExportRoomIds, n \in {None, Some(NAME_N)}}
IdentifierLists(min, max) == UNION {[1..n -> ExportIdentifiers] : n \in min..max}
RoomIdsOf(joined) == {joined[i].id : i \in 1..Len(joined)}

\* Runs over several identifiers, the rooms holding less than a page
Init ==
    /\ joined_rooms \in JoinedLists(ExportRooms)
    /\ server_history \in [RoomIdsOf(joined_rooms) -> SmallRoomSizes]
    /\ accessible_rooms_info = <<>>
    /\ rooms \in IdentifierLists(0, MaxIdentifiers)
    /\ output_path \in {"None", "Missing", "Dir", "NotDir"}
    /\ formats \in {{"Json"}, {"Txt"}, {"Json", "Txt"}}   \* trace-cli.rs:228-230: never empty
    /\ pc = "start"
    /\ next_identifier = 0
    /\ room_identifier = None
    /\ resolution = NoRoomsWithSpecifiedName
    /\ events = <<>>
    /\ last_end_token = None
    /\ requests = 0
    /\ page_requests = <<>>
    /\ writes = <<>>
    /\ stdout = <<>>
    /\ fs_calls = <<>>
    /\ base_output_filename = None
    /\ result = "Running"
    /\ NoRender
    /\ NoStore
    /\ NoCli

\* Runs over one identifier, the rooms holding up to two full pages
InitPaginate ==
    /\ joined_rooms \in JoinedLists(ExportRooms)
    /\ server_history \in [RoomIdsOf(joined_rooms) -> RoomSizes]
    /\ accessible_rooms_info = <<>>
    /\ rooms \in IdentifierLists(1, 1)
    /\ output_path \in {"None", "Missing", "Dir", "NotDir"}
    /\ formats \in {{"Json"}, {"Txt"}, {"Json", "Txt"}}   \* trace-cli.rs:228-230: never empty
    /\ pc = "start"
    /\ next_identifier = 0
    /\ room_identifier = None
    /\ resolution = NoRoomsWithSpecifiedName
    /\ events = <<>>
    /\ last_end_token = None
    /\ requests = 0
    /\ page_requests = <<>>
    /\ writes = <<>>
    /\ stdout = <<>>
    /\ fs_calls = <<>>
    /\ base_output_filename = None
    /\ result = "Running"
    /\ NoRender
    /\ NoStore
    /\ NoCli

\* Path::exists, Path::is_dir and create_dir_all on the supplied path, as
\* lines 146-155 make them for the state the path is in
PathCalls(path) ==
    CASE path = "None" -> <<>>
      [] path = "Missing" -> <<"exists", "create_dir_all">>
      [] path = "Dir" -> <<"exists", "is_dir">>
      [] path = "NotDir" -> <<"exists", "is_dir">>

\* lines 146-151: the supplied path exists and is not a directory
OutputPathNotDirectory ==
    /\ pc = "start"
    /\ output_path = "NotDir"
    /\ fs_calls' = PathCalls(output_path)
    /\ result' = "Panic"
    /\ pc' = "done"
    /\ UNCHANGED <<base_output_filename, render_vars, session_vars, cli_vars, joined_rooms, accessible_rooms_info, rooms, output_path, formats,
                   next_identifier, room_identifier, resolution, server_history, events,
                   last_end_token, requests, page_requests, writes, stdout>>

\* line 153: the path does not exist and create_dir_all fails; unwrap panics
CreateDirectoryFails ==
    /\ pc = "start"
    /\ output_path = "Missing"
    /\ fs_calls' = PathCalls(output_path)
    /\ result' = "Panic"
    /\ pc' = "done"
    /\ UNCHANGED <<base_output_filename, render_vars, session_vars, cli_vars, joined_rooms, accessible_rooms_info, rooms, output_path, formats,
                   next_identifier, room_identifier, resolution, server_history, events,
                   last_end_token, requests, page_requests, writes, stdout>>

\* a plausible slip: the is_dir test left out, a path that is a file accepted
BuildDirectory_NoDirTest ==
    /\ pc = "start"
    /\ fs_calls' = PathCalls(output_path)
    /\ output_path' = IF output_path = "Missing" THEN "Dir" ELSE output_path
    /\ accessible_rooms_info' = get_rooms_info(joined_rooms)
    /\ pc' = "loop"
    /\ UNCHANGED <<base_output_filename, render_vars, session_vars, cli_vars, joined_rooms, rooms, formats, next_identifier, room_identifier,
                   resolution, server_history, events, last_end_token, requests, page_requests, writes,
                   stdout, result>>

\* lines 146-157: the path is absent, a directory, or created; then the
\* directory of rooms is built
BuildDirectory ==
    /\ pc = "start"
    /\ output_path # "NotDir"
    /\ fs_calls' = PathCalls(output_path)
    /\ output_path' = IF output_path = "Missing" THEN "Dir" ELSE output_path
    /\ accessible_rooms_info' = get_rooms_info(joined_rooms)
    /\ pc' = "loop"
    /\ UNCHANGED <<base_output_filename, render_vars, session_vars, cli_vars, joined_rooms, rooms, formats, next_identifier, room_identifier,
                   resolution, server_history, events, last_end_token, requests, page_requests, writes,
                   stdout, result>>

\* the identifier the for loop takes next, and what it resolves to
NextRoomIdentifier == rooms[next_identifier + 1]
NextResolution == get_room_index_by_identifier(accessible_rooms_info, NextRoomIdentifier)

\* a plausible slip: the directory is listed again for each identifier
ResolveOk_Relists ==
    /\ pc = "loop"
    /\ next_identifier < Len(rooms)
    /\ LET fresh == get_rooms_info(joined_rooms)
           found == get_room_index_by_identifier(fresh, NextRoomIdentifier)
       IN  /\ found.tag = "Ok"
           /\ accessible_rooms_info' = fresh
           /\ resolution' = found
    /\ room_identifier' = Some(NextRoomIdentifier)
    /\ next_identifier' = next_identifier + 1
    /\ events' = <<>>
    /\ last_end_token' = None
    /\ requests' = 0
    /\ page_requests' = <<>>
    /\ pc' = "fetch"
    /\ UNCHANGED <<base_output_filename, render_vars, session_vars, cli_vars, fs_calls, joined_rooms, rooms, output_path, formats,
                   server_history, writes, stdout, result>>

\* lines 159-161, 175-176: the identifier resolves; pagination starts empty
ResolveOk ==
    /\ pc = "loop"
    /\ next_identifier < Len(rooms)
    /\ NextResolution.tag = "Ok"
    /\ room_identifier' = Some(NextRoomIdentifier)
    /\ resolution' = NextResolution
    /\ next_identifier' = next_identifier + 1
    /\ events' = <<>>
    /\ last_end_token' = None
    /\ requests' = 0
    /\ page_requests' = <<>>
    /\ pc' = "fetch"
    /\ UNCHANGED <<base_output_filename, render_vars, session_vars, cli_vars, fs_calls, joined_rooms, accessible_rooms_info, rooms, output_path, formats,
                   server_history, writes, stdout, result>>

\* println! of lines 165 and 169, as the fields it interpolates
Diagnostic(line, identifier, room_ids) ==
    [line |-> line, identifier |-> identifier, room_ids |-> room_ids]

\* a plausible slip: the ambiguity aborts the run
SkipAmbiguous_Aborts ==
    /\ pc = "loop"
    /\ next_identifier < Len(rooms)
    /\ NextResolution.tag = "MultipleRoomsWithSpecifiedName"
    /\ room_identifier' = Some(NextRoomIdentifier)
    /\ resolution' = NextResolution
    /\ next_identifier' = next_identifier + 1
    /\ result' = "ErrResolve"
    /\ pc' = "done"
    /\ UNCHANGED <<base_output_filename, render_vars, session_vars, cli_vars, fs_calls, joined_rooms, accessible_rooms_info, rooms, output_path, formats,
                   server_history, events, last_end_token, requests, page_requests, writes, stdout>>

\* lines 164-167: more than one room carries the name; report and continue
SkipAmbiguous ==
    /\ pc = "loop"
    /\ next_identifier < Len(rooms)
    /\ NextResolution.tag = "MultipleRoomsWithSpecifiedName"
    /\ room_identifier' = Some(NextRoomIdentifier)
    /\ resolution' = NextResolution
    /\ next_identifier' = next_identifier + 1
    /\ stdout' = Append(stdout, Diagnostic("Found more than one room", NextRoomIdentifier,
                                           NextResolution.ids))
    /\ pc' = "loop"
    /\ UNCHANGED <<base_output_filename, render_vars, session_vars, cli_vars, fs_calls, joined_rooms, accessible_rooms_info, rooms, output_path, formats,
                   server_history, events, last_end_token, requests, page_requests, writes, result>>

\* lines 168-171: no room matches; report and continue
SkipNotFound ==
    /\ pc = "loop"
    /\ next_identifier < Len(rooms)
    /\ NextResolution.tag = "NoRoomsWithSpecifiedName"
    /\ room_identifier' = Some(NextRoomIdentifier)
    /\ resolution' = NextResolution
    /\ next_identifier' = next_identifier + 1
    /\ stdout' = Append(stdout, Diagnostic("Couldn't find any rooms", NextRoomIdentifier, <<>>))
    /\ pc' = "loop"
    /\ UNCHANGED <<base_output_filename, render_vars, session_vars, cli_vars, fs_calls, joined_rooms, accessible_rooms_info, rooms, output_path, formats,
                   server_history, events, last_end_token, requests, page_requests, writes, result>>

\* the events the server holds for the room being exported
history == server_history[accessible_rooms_info[resolution.index + 1].room]

\* room.messages(options): the server's page for a request from cursor `from`
\* of at most `page_limit` events.  A cursor is the number of events before it.
PageStart(from) == IF IsSome(from) THEN Unwrap(from) ELSE 0
PageLength(from, page_limit) ==
    IF history - PageStart(from) < page_limit
    THEN (IF history > PageStart(from) THEN history - PageStart(from) ELSE 0)
    ELSE page_limit
PageChunk(from, page_limit) ==
    [k \in 1..PageLength(from, page_limit) |-> PageStart(from) + k]
\* the end cursor: present while events remain; once none remain the server
\* may omit it
PageEnds(from, page_limit) ==
    LET end == PageStart(from) + PageLength(from, page_limit)
    IN  IF end < history THEN {Some(end)} ELSE {Some(end), None}

\* one request of the loop as the server saw it: MessagesOptions::forward()
\* .from(from) with limit `page_limit`, and the reply (None: the request failed)
Messages(chunk_length, end) == [chunk_length |-> chunk_length, end |-> end]
PageRequest(from, page_limit, reply) == [from |-> from, limit |-> page_limit, reply |-> reply]

\* a plausible slip: what was fetched so far is written out before giving up
FetchPageFails_WritesPartial ==
    /\ pc = "fetch"
    /\ requests < MaxRequests
    /\ requests' = requests + 1
    /\ page_requests' = Append(page_requests, PageRequest(last_end_token, limit, None))
    /\ writes' = Append(writes,
           [file |-> format_export_filename(accessible_rooms_info[resolution.index + 1])
                         \o <<".", "j", "s", "o", "n">>,
            format |-> "Json", events |-> events, iteration |-> next_identifier])
    /\ events' = <<>>
    /\ last_end_token' = None
    /\ result' = "ErrFetch"
    /\ pc' = "done"
    /\ UNCHANGED <<base_output_filename, render_vars, session_vars, cli_vars, fs_calls, joined_rooms, accessible_rooms_info, rooms, output_path, formats,
                   next_identifier, room_identifier, resolution, server_history, stdout>>

\* line 181: the request fails; `?` returns the error from export and the
\* batch is dropped
FetchPageFails ==
    /\ pc = "fetch"
    /\ requests < MaxRequests
    /\ requests' = requests + 1
    /\ page_requests' = Append(page_requests, PageRequest(last_end_token, limit, None))
    /\ events' = <<>>
    /\ last_end_token' = None
    /\ result' = "ErrFetch"
    /\ pc' = "done"
    /\ UNCHANGED <<base_output_filename, render_vars, session_vars, cli_vars, fs_calls, joined_rooms, accessible_rooms_info, rooms, output_path, formats,
                   next_identifier, room_identifier, resolution, server_history, writes, stdout>>

\* a plausible slip: the loop ends on an empty page, not on a short one
FetchPage_UntilEmpty ==
    /\ pc = "fetch"
    /\ requests < MaxRequests
    /\ requests' = requests + 1
    /\ \E end \in PageEnds(last_end_token, limit) :
          LET chunk == PageChunk(last_end_token, limit)
              messages_length == Len(chunk)
          IN  /\ page_requests' = Append(page_requests,
                      PageRequest(last_end_token, limit, Some(Messages(messages_length, end))))
              /\ events' = events \o chunk
              /\ IF messages_length = 0
                 THEN /\ pc' = "write_json"
                      /\ UNCHANGED last_end_token
                 ELSE /\ last_end_token' = end
                      /\ pc' = "fetch"
    /\ UNCHANGED <<base_output_filename, render_vars, session_vars, cli_vars, fs_calls, joined_rooms, accessible_rooms_info, rooms, output_path, formats,
                   next_identifier, room_identifier, resolution, server_history, writes,
                   stdout, result>>

\* lines 177-189: one turn of the loop with a successful request
FetchPage ==
    /\ pc = "fetch"
    /\ requests < MaxRequests
    /\ requests' = requests + 1
    /\ \E end \in PageEnds(last_end_token, limit) :
          LET chunk == PageChunk(last_end_token, limit)
              messages_length == Len(chunk)
          IN  /\ page_requests' = Append(page_requests,
                      PageRequest(last_end_token, limit, Some(Messages(messages_length, end))))
              /\ events' = events \o chunk
              /\ IF messages_length < full_page
                 THEN /\ pc' = "write_json"
                      /\ UNCHANGED last_end_token
                 ELSE /\ last_end_token' = end
                      /\ pc' = "fetch"
    /\ UNCHANGED <<base_output_filename, render_vars, session_vars, cli_vars, fs_calls, joined_rooms, accessible_rooms_info, rooms, output_path, formats,
                   next_identifier, room_identifier, resolution, server_history, writes,
                   stdout, result>>

\* fs::write of one output file; iteration tells which identifier it was written for
OutputFile(extension, format) ==
    [file |-> format_export_filename(accessible_rooms_info[resolution.index + 1]) \o extension,
     format |-> format, events |-> events, iteration |-> next_identifier]

\* a plausible slip: the Json file written whether or not Json was requested
WriteJson_Unconditional ==
    /\ pc = "write_json"
    /\ writes' = Append(writes, OutputFile(<<".", "j", "s", "o", "n">>, "Json"))
    /\ pc' = "write_txt"
    /\ UNCHANGED <<base_output_filename, render_vars, session_vars, cli_vars, fs_calls, joined_rooms, accessible_rooms_info, rooms, output_path, formats,
                   next_identifier, room_identifier, resolution, server_history, events,
                   last_end_token, requests, page_requests, stdout, result>>

\* lines 191-198
WriteJson ==
    /\ pc = "write_json"
    /\ writes' = IF "Json" \in formats
                 THEN Append(writes, OutputFile(<<".", "j", "s", "o", "n">>, "Json"))
                 ELSE writes
    /\ pc' = "write_txt"
    /\ UNCHANGED <<base_output_filename, render_vars, session_vars, cli_vars, fs_calls, joined_rooms, accessible_rooms_info, rooms, output_path, formats,
                   next_identifier, room_identifier, resolution, server_history, events,
                   last_end_token, requests, page_requests, stdout, result>>

\* lines 199-205: messages_to_txt succeeds (or Txt is not requested); the loop
\* body ends and its locals are dropped
WriteTxt ==
    /\ pc = "write_txt"
    /\ writes' = IF "Txt" \in formats
                 THEN Append(writes, OutputFile(<<".", "t", "x", "t">>, "Txt"))
                 ELSE writes
    /\ events' = <<>>
    /\ last_end_token' = None
    /\ pc' = "loop"
    /\ UNCHANGED <<base_output_filename, render_vars, session_vars, cli_vars, fs_calls, joined_rooms, accessible_rooms_info, rooms, output_path, formats,
                   next_identifier, room_identifier, resolution, server_history, requests, page_requests,
                   stdout, result>>

\* line 200: a member lookup inside messages_to_txt fails; `?` returns the error
RenderTxtFails ==
    /\ pc = "write_txt"
    /\ "Txt" \in formats
    /\ events # <<>>
    /\ events' = <<>>
    /\ last_end_token' = None
    /\ result' = "ErrRender"
    /\ pc' = "done"
    /\ UNCHANGED <<base_output_filename, render_vars, session_vars, cli_vars, fs_calls, joined_rooms, accessible_rooms_info, rooms, output_path, formats,
                   next_identifier, room_identifier, resolution, server_history, requests, page_requests,
                   writes, stdout>>

\* lines 197 and 203: fs::write fails; unwrap panics and the file is not there
WriteFails ==
    /\ \/ pc = "write_json" /\ "Json" \in formats
       \/ pc = "write_txt" /\ "Txt" \in formats
    /\ events' = <<>>
    /\ last_end_token' = None
    /\ result' = "Panic"
    /\ pc' = "done"
    /\ UNCHANGED <<base_output_filename, render_vars, session_vars, cli_vars, fs_calls, joined_rooms, accessible_rooms_info, rooms, output_path, formats,
                   next_identifier, room_identifier, resolution, server_history, requests, page_requests,
                   writes, stdout>>

\* line 207: every identifier was taken
ReturnOk ==
    /\ pc = "loop"
    /\ next_identifier = Len(rooms)
    /\ result' = "Ok"
    /\ pc' = "done"
    /\ UNCHANGED <<base_output_filename, render_vars, session_vars, cli_vars, fs_calls, joined_rooms, accessible_rooms_info, rooms, output_path, formats,
                   next_identifier, room_identifier, resolution, server_history, events,
                   last_end_token, requests, page_requests, writes, stdout>>

Next ==
    \/ OutputPathNotDirectory
    \/ CreateDirectoryFails
    \/ BuildDirectory
    \/ ResolveOk
    \/ SkipAmbiguous
    \/ SkipNotFound
    \/ FetchPage
    \/ FetchPageFails
    \/ WriteJson
    \/ WriteTxt
    \/ RenderTxtFails
    \/ WriteFails
    \/ ReturnOk

Spec == Init /\ [][Next]_vars

SpecPaginate == InitPaginate /\ [][Next]_vars

\* While export runs the account leaves one of its rooms: what
\* client.joined_rooms() would now return changes
LeaveRoom ==
    /\ pc \notin {"start", "done"}
    /\ \E gone \in 1..Len(joined_rooms) :
          joined_rooms' = [k \in 1..(Len(joined_rooms) - 1) |->
                              IF k < gone THEN joined_rooms[k] ELSE joined_rooms[k + 1]]
    /\ UNCHANGED <<base_output_filename, render_vars, session_vars, cli_vars, fs_calls,
                   accessible_rooms_info, rooms, output_path, formats, pc, next_identifier,
                   room_identifier, resolution, server_history, events, last_end_token,
                   requests, page_requests, writes, stdout, result>>

\* export while the set of joined rooms changes under it
SpecSnapshot == Init /\ [][Next \/ LeaveRoom]_vars

---------------------------------------------------------------------------
(* Claims about export *)

Paginating == pc \in {"fetch", "write_json", "write_txt"}
WritesOf(i) == {w \in 1..Len(writes) : writes[w].iteration = i}
Unresolved(i) ==
    get_room_index_by_identifier(accessible_rooms_info, rooms[i]).tag # "Ok"
UnresolvedSoFar == {i \in 1..next_identifier : Unresolved(i)}
NthUnresolved(k) ==
    CHOOSE i \in UnresolvedSoFar : Cardinality({j \in UnresolvedSoFar : j < i}) = k - 1

\* C5: the batch assembled for a room of N events holds exactly the events
\* 1..N, each once and in delivery order: while pages are appended the batch
\* is a prefix of the history, and once the loop has ended it is all of it.
C5_BatchIsRoomHistory ==
    Paginating =>
        /\ Len(events) <= history
        /\ \A k \in 1..Len(events) : events[k] = k
        /\ pc \in {"write_json", "write_txt"} => Len(events) = history

\* C6: the pagination loop stops: for a room of N events it sends no more
\* than N div 1000 + 1 requests, whatever end cursors the server returns.
C6_PaginationStops ==
    Paginating => requests <= (history \div full_page) + 1

\* C7: when a page fetch of identifier A fails, no file is written for A, and
\* every later identifier B that resolves to another room still gets its files.
C7_FetchFailureIsolated ==
    (pc = "done" /\ result = "ErrFetch") =>
        /\ WritesOf(next_identifier) = {}
        /\ \A j \in (next_identifier + 1)..Len(rooms) :
               (/\ ~Unresolved(j)
                /\ get_room_index_by_identifier(accessible_rooms_info, rooms[j]) # resolution)
                   => WritesOf(j) # {}

\* C8: when a page fetch fails, on the first or on a later page, export has
\* returned the failure, the accumulated events are gone and no file of any
\* format was written for that identifier.
C8_FetchFailureDiscardsBatch ==
    result = "ErrFetch" =>
        /\ pc = "done"
        /\ events = <<>>
        /\ WritesOf(next_identifier) = {}

\* C8 witness: the failure came on a later page, after a full page was accumulated
C8_Witness ==
    /\ result = "ErrFetch"
    /\ requests >= 2
    /\ history >= full_page

\* C9: every identifier that resolved to not-found or ambiguous has its
\* diagnostic on stdout (in the order supplied, one each) and no file; export
\* never returns an error while on such an identifier; and a run that returns
\* Ok has taken every identifier and written a file per requested format for
\* each one that resolved.
C9_ResolutionFailuresSkipped ==
    /\ Len(stdout) = Cardinality(UnresolvedSoFar)
    /\ \A k \in 1..Len(stdout) :
          /\ stdout[k].identifier = rooms[NthUnresolved(k)]
          /\ stdout[k].line =
                IF get_room_index_by_identifier(accessible_rooms_info,
                                                rooms[NthUnresolved(k)]).tag
                       = "NoRoomsWithSpecifiedName"
                THEN "Couldn't find any rooms" ELSE "Found more than one room"
    /\ \A i \in UnresolvedSoFar : WritesOf(i) = {}
    /\ result \notin {"Running", "Ok", "Panic"} => next_identifier \notin UnresolvedSoFar
    /\ result = "Ok" =>
          /\ next_identifier = Len(rooms)
          /\ \A i \in 1..Len(rooms) : ~Unresolved(i) =>
                 \A f \in formats : \E w \in WritesOf(i) : writes[w].format = f

\* C9 witness: a run that returned Ok after skipping its first identifier with
\* one diagnostic and exporting the second
C9_Witness ==
    /\ pc = "done" /\ result = "Ok"
    /\ Len(rooms) >= 2
    /\ Unresolved(1) /\ ~Unresolved(2)
    /\ Len(stdout) = 1
    /\ WritesOf(2) # {}

\* C10: at the end of a run every identifier for which no file was written
\* has been reported with the identifier and the reason.  What the user gets
\* is stdout and, when export returns Err, the error of the failed call, which
\* names no identifier.
C10_EverySkipReported ==
    (pc = "done" /\ result \in {"Ok", "ErrFetch"}) =>
        \A i \in 1..Len(rooms) :
            WritesOf(i) = {} => \E k \in 1..Len(stdout) : stdout[k].identifier = rooms[i]

\* C11: a supplied path that exists and is not a directory ends the run before
\* the directory of rooms is built, before any page is requested and before
\* any file is written; a supplied path that does not exist is created (or the
\* run ends) before any identifier is taken; without a path no call is made
\* on the filesystem for it.
C11_OutputPathChecked ==
    /\ (output_path = "NotDir" /\ pc # "start") =>
          /\ pc = "done" /\ result = "Panic"
          /\ accessible_rooms_info = <<>>
          /\ next_identifier = 0 /\ requests = 0
          /\ writes = <<>> /\ stdout = <<>>
          /\ fs_calls = <<"exists", "is_dir">>
    /\ (output_path = "Missing" /\ pc # "start") =>
          /\ pc = "done" /\ result = "Panic"
          /\ next_identifier = 0 /\ requests = 0 /\ writes = <<>>
    /\ (\E k \in 1..Len(fs_calls) : fs_calls[k] = "create_dir_all") =>
          \/ output_path = "Dir"
          \/ output_path = "Missing" /\ result = "Panic"
    /\ output_path = "None" => fs_calls = <<>>
    /\ (output_path = "Dir" /\ pc # "start") =>
          Len(fs_calls) = 2 /\ fs_calls[1] = "exists"

\* C11 witness: the run ended on a path that is not a directory although
\* rooms were joined and identifiers were supplied that resolve
C11_Witness ==
    /\ output_path = "NotDir"
    /\ pc = "done" /\ result = "Panic"
    /\ Len(rooms) = 2
    /\ \A i \in 1..Len(rooms) :
          get_room_index_by_identifier(get_rooms_info(joined_rooms), rooms[i]).tag = "Ok"

\* C11 witness of the created directory: identifiers are taken after
\* create_dir_all was called
C11_WitnessCreated ==
    /\ fs_calls = <<"exists", "create_dir_all">>
    /\ output_path = "Dir"
    /\ writes # <<>>

\* C12: no file of a room is written until the room's pagination has ended
\* and every requested format has been rendered: none while pages are still
\* requested, none while the Txt render is still to come, and none on disk
\* when the Txt render has failed.
C12_WritesAfterAllRenders ==
    /\ pc = "fetch" => WritesOf(next_identifier) = {}
    /\ (pc = "write_txt" /\ "Txt" \in formats) => WritesOf(next_identifier) = {}
    /\ result = "ErrRender" => WritesOf(next_identifier) = {}

\* the identifiers whose turn of the for loop has ended
Completed(i) ==
    \/ i < next_identifier
    \/ i = next_identifier /\ (pc = "loop" \/ result = "Ok")
\* the directory entry identifier i resolves to
EntryOf(i) ==
    accessible_rooms_info[
        get_room_index_by_identifier(accessible_rooms_info, rooms[i]).index + 1]
ExtensionOf(format) ==
    IF format = "Json" THEN <<".", "j", "s", "o", "n">> ELSE <<".", "t", "x", "t">>

\* the files of the identifiers: one per requested format, in order
OneFilePerFormat ==
    /\ \A i \in 1..Len(rooms) : (Completed(i) /\ ~Unresolved(i)) =>
          /\ \A f \in formats :
                Cardinality({w \in WritesOf(i) : writes[w].format = f}) = 1
          /\ \A w \in WritesOf(i) :
                /\ writes[w].format \in formats
                /\ writes[w].file =
                       format_export_filename(EntryOf(i)) \o ExtensionOf(writes[w].format)
          /\ \A w, v \in WritesOf(i) : writes[w].events = writes[v].events
    /\ \A w, v \in 1..Len(writes) : w < v => writes[w].iteration <= writes[v].iteration
    /\ \A w \in 1..Len(writes) : writes[w].iteration \in 1..next_identifier

\* one pagination per identifier: from its first request to its last file the
\* identifier stays the same, the batch is only appended to by pages, no page
\* is requested once a file is being written, and a file holds the batch
OnePagination ==
    /\ (Paginating /\ Paginating') =>
          /\ next_identifier' = next_identifier
          /\ Len(events') >= Len(events)
          /\ SubSeq(events', 1, Len(events)) = events
    /\ (pc \in {"write_json", "write_txt"} /\ Paginating') =>
          /\ events' = events
          /\ requests' = requests
    /\ writes' # writes =>
          /\ pc \in {"write_json", "write_txt"}
          /\ writes' = Append(writes, writes'[Len(writes')])
          /\ writes'[Len(writes')].events = events
          /\ writes'[Len(writes')].iteration = next_identifier

\* C13: an identifier that resolved and whose turn has ended has exactly one
\* file per requested format, with the extension of the format, none for a
\* format not requested, all holding the same batch, which one pagination
\* made for that identifier has assembled; files appear in the order of the
\* identifiers, and only for identifiers already taken.
C13_OneFetchOneFilePerFormat ==
    []OneFilePerFormat /\ [][OnePagination]_vars

\* C13 witness: two identifiers exported one after the other from two rooms,
\* Txt alone requested, one file each
C13_Witness ==
    /\ pc = "done" /\ result = "Ok"
    /\ Len(rooms) = 2
    /\ ~Unresolved(1) /\ ~Unresolved(2)
    /\ EntryOf(1).id # EntryOf(2).id
    /\ formats = {"Txt"}
    /\ Len(writes) = 2
    /\ writes[1].events # <<>>


FullPage(request) == IsSome(request.reply) /\ Unwrap(request.reply).chunk_length = 1000

\* C24: of the requests sent for one room the first carries no cursor, each
\* later one carries the end cursor returned with the page before it, which
\* held exactly 1000 events; each asks for 1000 events; and after a page of
\* exactly 1000 events the loop is at its next request.
C24_PagesSequential ==
    /\ \A k \in 1..Len(page_requests) :
          /\ page_requests[k].limit = 1000
          /\ k = 1 => page_requests[k].from = None
          /\ k > 1 =>
                /\ FullPage(page_requests[k - 1])
                /\ page_requests[k].from = Unwrap(page_requests[k - 1].reply).end
    /\ (Len(page_requests) > 0 /\ FullPage(page_requests[Len(page_requests)])) =>
          pc = "fetch"

\* C24 witness: a room of 2000 events took three requests, the third from the
\* cursor after the second page
C24_Witness ==
    /\ Len(page_requests) = 3
    /\ page_requests[2].from = Some(1000)
    /\ page_requests[3].from = Some(2000)
    /\ Unwrap(page_requests[3].reply).chunk_length = 0
    /\ pc \in {"write_json", "write_txt"}


FilesOf(i) == {writes[w].file : w \in WritesOf(i)}
LinesAbout(identifier) ==
    Cardinality({k \in 1..Len(stdout) : stdout[k].identifier = identifier})
CompletedTurnsOf(identifier) ==
    Cardinality({i \in 1..Len(rooms) : Completed(i) /\ rooms[i] = identifier})

\* the directory is what get_rooms_info returned at the one step that leaves
\* the start of export, after the path test; no other step changes it
DirectoryBuiltOnce ==
    /\ accessible_rooms_info' # accessible_rooms_info =>
          /\ pc = "start" /\ pc' = "loop"
          /\ output_path = "None" \/ (fs_calls' # <<>> /\ fs_calls'[1] = "exists")
          /\ accessible_rooms_info' = get_rooms_info(joined_rooms)
          /\ next_identifier' = 0
    /\ pc # "start" => pc' # "start"

\* two finished turns of the same identifier ended alike: the same files, or
\* one diagnostic each
SameOutcome ==
    /\ \A i, j \in 1..Len(rooms) :
          (Completed(i) /\ Completed(j) /\ rooms[i] = rooms[j]) => FilesOf(i) = FilesOf(j)
    /\ \A i \in 1..Len(rooms) : Completed(i) =>
          \/ FilesOf(i) # {} /\ LinesAbout(rooms[i]) = 0
          \/ FilesOf(i) = {} /\ LinesAbout(rooms[i]) = CompletedTurnsOf(rooms[i])

\* C26: in one run the room directory is built once, after the output path
\* test and before any identifier is taken, and no later step changes it,
\* also when the joined rooms change meanwhile; two turns of the same
\* identifier have the same outcome.
C26_DirectorySnapshot ==
    /\ []((next_identifier > 0 => pc # "start") /\ SameOutcome)
    /\ [][DirectoryBuiltOnce]_vars

\* C26 witness: the same name was exported twice although the room that
\* carries it was left after the first turn
C26_Witness ==
    /\ Len(rooms) = 2
    /\ rooms[1] = rooms[2]
    /\ result = "Ok"
    /\ Len(writes) >= 2
    /\ joined_rooms = <<>>
    /\ accessible_rooms_info # <<>>

---------------------------------------------------------------------------
(* Resolution on its own: a directory is listed, identifiers are resolved *)

RoomIds == {ID_A, ID_B, ID_C, ID_D}
Identifiers == {ID_A, ALIAS_P, ALIAS_Q, STR_ZZ}

\* cached metadata a joined room can carry; a name is free text, so it may
\* also read like an id or an alias.  Aliases: <<canonical_alias, alt_aliases>>
ResolveAliases == {<<None, <<>>>>, <<Some(ALIAS_P), <<>>>>, <<None, <<ALIAS_Q, ALIAS_P>>>>}
ResolveRooms ==
    {RoomWithCachedInfo(id, n, a[1], a[2]) :
        id \in RoomIds,
        n \in {None, Some(ALIAS_P), Some(ID_A)},
        a \in ResolveAliases}

InitResolve ==
    /\ joined_rooms \in JoinedLists(ResolveRooms)
    /\ accessible_rooms_info = <<>>
    /\ rooms = <<>>
    /\ output_path = "None"
    /\ formats = {}
    /\ pc = "joined"
    /\ next_identifier = 0
    /\ room_identifier = None
    /\ resolution = NoRoomsWithSpecifiedName
    /\ server_history = <<>>
    /\ events = <<>>
    /\ last_end_token = None
    /\ requests = 0
    /\ page_requests = <<>>
    /\ writes = <<>>
    /\ stdout = <<>>
    /\ fs_calls = <<>>
    /\ base_output_filename = None
    /\ result = "Running"
    /\ NoRender
    /\ NoStore
    /\ NoCli

\* get_rooms_info(&client)
ListDirectory ==
    /\ pc = "joined"
    /\ accessible_rooms_info' = get_rooms_info(joined_rooms)
    /\ pc' = "directory"
    /\ UNCHANGED <<base_output_filename, render_vars, session_vars, cli_vars, fs_calls, joined_rooms, rooms, output_path, formats, next_identifier,
                   room_identifier, resolution, server_history, events, last_end_token,
                   requests, page_requests, writes, stdout, result>>

\* get_room_index_by_identifier(&accessible_rooms_info, identifier)
ResolveIdentifier(identifier) ==
    /\ pc = "directory"
    /\ room_identifier' = Some(identifier)
    /\ resolution' = get_room_index_by_identifier(accessible_rooms_info, identifier)
    /\ pc' = "resolved"
    /\ UNCHANGED <<base_output_filename, render_vars, session_vars, cli_vars, fs_calls, joined_rooms, accessible_rooms_info, rooms, output_path, formats,
                   next_identifier, server_history, events, last_end_token, requests, page_requests,
                   writes, stdout, result>>

NextResolve ==
    \/ ListDirectory
    \/ \E identifier \in Identifiers : ResolveIdentifier(identifier)

SpecResolve == InitResolve /\ [][NextResolve]_vars

---------------------------------------------------------------------------
(* Claims about get_room_index_by_identifier, checked under SpecResolve *)

Resolved == pc = "resolved"
Ident == Unwrap(room_identifier)
Entries == 1..Len(accessible_rooms_info)
Entry(i) == accessible_rooms_info[i]
ExactMatch(i) ==
    \/ IdIs(Ident, Entry(i))
    \/ CanonicalAliasIs(Ident, Entry(i))
    \/ AltAliasIs(Ident, Entry(i))
NameMatch(i) == NameIs(Ident, Entry(i))
NameMatches == {i \in Entries : NameMatch(i)}

\* C1: an identifier equal to some entry's id, canonical alias or alt alias
\* resolves to Ok(index of an entry it matches that way), whatever entries
\* carry it as name; an id match wins over a canonical-alias match, that over
\* an alt-alias match, and all of them over name matches.
C1_ExactMatchResolves ==
    (Resolved /\ \E i \in Entries : ExactMatch(i)) =>
        /\ resolution.tag = "Ok"
        /\ resolution.index + 1 \in Entries
        /\ ExactMatch(resolution.index + 1)
        /\ (\E i \in Entries : IdIs(Ident, Entry(i)))
               => IdIs(Ident, Entry(resolution.index + 1))
        /\ ((\E i \in Entries : CanonicalAliasIs(Ident, Entry(i)))
            /\ ~\E i \in Entries : IdIs(Ident, Entry(i)))
               => CanonicalAliasIs(Ident, Entry(resolution.index + 1))
        /\ (Cardinality({i \in Entries : ExactMatch(i)}) = 1)
               => \A i \in Entries : ExactMatch(i) => resolution.index + 1 = i

\* C1 witness: an alt-alias match resolved to an entry that does not carry the
\* identifier as name, while another entry does
C1_Witness ==
    /\ Resolved
    /\ \E i, j \in Entries :
          /\ j # i
          /\ NameMatch(j) /\ ~ExactMatch(j)
          /\ AltAliasIs(Ident, Entry(i)) /\ ~NameMatch(i)
          /\ resolution = Ok(i - 1)

\* C2: with two or more entries named s and no id/alias match, the error is
\* MultipleRoomsWithSpecifiedName with exactly the ids of the entries named s,
\* each once.
C2_AmbiguousListsExactlyNameMatches ==
    (Resolved /\ Cardinality(NameMatches) >= 2 /\ ~\E i \in Entries : ExactMatch(i)) =>
        /\ resolution.tag = "MultipleRoomsWithSpecifiedName"
        /\ Len(resolution.ids) = Cardinality(NameMatches)
        /\ {resolution.ids[k] : k \in 1..Len(resolution.ids)}
               = {Entry(i).id : i \in NameMatches}

\* C2 witness: an ambiguous name in a directory that also holds another room
C2_Witness ==
    /\ Resolved
    /\ Cardinality(NameMatches) >= 2
    /\ ~\E i \in Entries : ExactMatch(i)
    /\ resolution.tag = "MultipleRoomsWithSpecifiedName"
    /\ Len(resolution.ids) = 2
    /\ Len(accessible_rooms_info) = 3

\* C3: with exactly one entry named s and no id/alias match, the result is
\* Ok(index of that entry).
C3_SingleNameMatchResolves ==
    (Resolved /\ Cardinality(NameMatches) = 1 /\ ~\E i \in Entries : ExactMatch(i)) =>
        /\ resolution.tag = "Ok"
        /\ resolution.index + 1 \in NameMatches

\* C3 witness: the single name match is not the first entry of the directory
C3_Witness ==
    /\ Resolved
    /\ NameMatches = {2}
    /\ ~\E i \in Entries : ExactMatch(i)
    /\ resolution = Ok(1)

\* C4: NoRoomsWithSpecifiedName is returned exactly when no entry matches the
\* identifier by id, canonical alias, alt alias or name (so always on an
\* empty directory).
C4_NotFoundIffNoMatch ==
    Resolved =>
        ((resolution.tag = "NoRoomsWithSpecifiedName")
            <=> ~\E i \in Entries : ExactMatch(i) \/ NameMatch(i))

\* C4 witness: not found in a non-empty directory whose entries carry names and aliases
C4_Witness ==
    /\ Resolved
    /\ resolution.tag = "NoRoomsWithSpecifiedName"
    /\ Len(accessible_rooms_info) = 2
    /\ \A i \in Entries : IsSome(Entry(i).name) /\ Entry(i).alt_aliases # <<>>

\* C4 witness on the empty directory
C4_WitnessEmpty ==
    /\ Resolved
    /\ accessible_rooms_info = <<>>
    /\ resolution.tag = "NoRoomsWithSpecifiedName"

---------------------------------------------------------------------------
(* The listing on its own: get_rooms_info over sessions whose rooms carry
   names and canonical aliases *)

ListRoomIds == {ID_A, ID_B, ID_C}
ListRooms ==
    {RoomWithCachedInfo(id, n, a, <<>>) :
        id \in ListRoomIds,
        n \in {None, Some(NAME_N), Some(STR_ZZ)},
        a \in {None, Some(ALIAS_P), Some(ALIAS_Q)}}

\* an alias points at one room, so no two rooms carry the same canonical
\* alias; names are free text and may be shared
InitList ==
    /\ joined_rooms \in JoinedLists(ListRooms)
    /\ \A i, j \in 1..Len(joined_rooms) :
          (/\ IsSome(joined_rooms[i].canonical_alias)
           /\ joined_rooms[i].canonical_alias = joined_rooms[j].canonical_alias) => i = j
    /\ accessible_rooms_info = <<>>
    /\ rooms = <<>>
    /\ output_path = "None"
    /\ formats = {}
    /\ pc = "joined"
    /\ next_identifier = 0
    /\ room_identifier = None
    /\ resolution = NoRoomsWithSpecifiedName
    /\ server_history = <<>>
    /\ events = <<>>
    /\ last_end_token = None
    /\ requests = 0
    /\ page_requests = <<>>
    /\ writes = <<>>
    /\ stdout = <<>>
    /\ fs_calls = <<>>
    /\ base_output_filename = None
    /\ result = "Running"
    /\ NoRender
    /\ NoStore
    /\ NoCli

SpecList == InitList /\ [][ListDirectory]_vars

Listed == pc = "directory"

\* C14: in the listing named entries come first, sorted by name; among the
\* unnamed ones those with a canonical alias come before those without,
\* sorted by alias; the entries with neither are sorted by id.
C14_ListingOrder ==
    Listed =>
        \A i, j \in Entries : i < j =>
            LET a == Entry(i)
                b == Entry(j)
            IN  /\ IsSome(b.name) => IsSome(a.name)
                /\ (IsSome(a.name) /\ IsSome(b.name)) =>
                       StrCmp(Unwrap(a.name), Unwrap(b.name)) # "Greater"
                /\ (~IsSome(a.name) /\ ~IsSome(b.name)) =>
                       /\ IsSome(b.canonical_alias) => IsSome(a.canonical_alias)
                       /\ (IsSome(a.canonical_alias) /\ IsSome(b.canonical_alias)) =>
                              StrCmp(Unwrap(a.canonical_alias),
                                     Unwrap(b.canonical_alias)) # "Greater"
                       /\ (~IsSome(a.canonical_alias) /\ ~IsSome(b.canonical_alias)) =>
                              StrCmp(a.id, b.id) # "Greater"

\* C14 as amended: entries without a name come first and named entries last,
\* sorted by name; among the unnamed entries those without a canonical alias
\* come before those with one, the former sorted by id, the latter by alias.
C14_ListingOrderAmended ==
    Listed =>
        \A i, j \in Entries : i < j =>
            LET a == Entry(i)
                b == Entry(j)
            IN  /\ IsSome(a.name) => IsSome(b.name)
                /\ (IsSome(a.name) /\ IsSome(b.name)) =>
                       StrCmp(Unwrap(a.name), Unwrap(b.name)) # "Greater"
                /\ (~IsSome(a.name) /\ ~IsSome(b.name)) =>
                       /\ IsSome(a.canonical_alias) => IsSome(b.canonical_alias)
                       /\ (IsSome(a.canonical_alias) /\ IsSome(b.canonical_alias)) =>
                              StrCmp(Unwrap(a.canonical_alias),
                                     Unwrap(b.canonical_alias)) # "Greater"
                       /\ (~IsSome(a.canonical_alias) /\ ~IsSome(b.canonical_alias)) =>
                              StrCmp(a.id, b.id) # "Greater"

\* C14 witness: a listing of the three groups, enumerated by the session in
\* the opposite order
C14_Witness ==
    /\ Listed
    /\ Len(accessible_rooms_info) = 3
    /\ ~IsSome(Entry(1).name) /\ ~IsSome(Entry(1).canonical_alias)
    /\ ~IsSome(Entry(2).name) /\ IsSome(Entry(2).canonical_alias)
    /\ IsSome(Entry(3).name)
    /\ joined_rooms = <<Entry(3), Entry(2), Entry(1)>>

\* the session's rooms enumerated in another order
Reordered(p) == [k \in 1..Len(joined_rooms) |-> joined_rooms[p[k]]]

\* C15: the listing holds every joined room exactly once (none for an empty
\* session), and it is the same sequence whatever order the session
\* enumerates the same rooms in.
C15_ListingDeterministic ==
    Listed =>
        /\ Len(accessible_rooms_info) = Len(joined_rooms)
        /\ \A k \in 1..Len(joined_rooms) :
               Cardinality({i \in Entries : Entry(i) = joined_rooms[k]}) = 1
        /\ \A p \in Permutations(1..Len(joined_rooms)) :
               get_rooms_info(Reordered(p)) = accessible_rooms_info

---------------------------------------------------------------------------
(* export.rs: messages_to_json and messages_to_txt *)

\* A raw event is its JSON payload: the members <<key, value>> in the order
\* of the text, the members of content and unsigned written at the top level.
\* Texts that are printed are sequences of characters.
USER_1 == <<"@", "u", "s", "e", "r", ":", "e", "x", "a", "m", "p", "l", "e", ".", "o", "r", "g">>
USER_2 == <<"@", "b", ":", "x">>
BODY_HI == <<"h", "i">>
BODY_TWO_LINES == <<"h", "\n", "i">>
DISPLAY_NAME == <<"A", "n", "n">>

\* the value of the last member of raw with this key (serde_json keeps the
\* last of duplicate keys)
Get(raw, key) ==
    IF \E k \in 1..Len(raw) : raw[k][1] = key
    THEN Some(raw[CHOOSE k \in 1..Len(raw) :
                      raw[k][1] = key /\ \A j \in (k + 1)..Len(raw) : raw[j][1] # key][2])
    ELSE None

\* event.event.deserialize(): Result<AnyTimelineEvent, _> as the fields the
\* render reads; ok = FALSE is Err
Undeserializable ==
    [ok |-> FALSE, kind |-> "", original |-> FALSE, msgtype |-> "", body |-> <<>>,
     sender |-> <<>>, origin_server_ts |-> <<>>]
Deserialized(raw, kind, original) ==
    [ok |-> TRUE, kind |-> kind, original |-> original,
     msgtype |-> IF original THEN Unwrap(Get(raw, "msgtype")) ELSE "",
     body |-> IF original THEN Unwrap(Get(raw, "body")) ELSE <<>>,
     sender |-> Unwrap(Get(raw, "sender")),
     origin_server_ts |-> Unwrap(Get(raw, "origin_server_ts"))]
deserialize(raw) ==
    IF \/ ~IsSome(Get(raw, "type"))
       \/ ~IsSome(Get(raw, "sender"))
       \/ ~IsSome(Get(raw, "origin_server_ts"))
        THEN Undeserializable
    ELSE IF IsSome(Get(raw, "state_key")) THEN Deserialized(raw, "State", FALSE)
    ELSE IF Unwrap(Get(raw, "type")) # "m.room.message"
        THEN Deserialized(raw, "MessageLike", FALSE)
    ELSE IF IsSome(Get(raw, "redacted_because"))
        THEN Deserialized(raw, "RoomMessage", FALSE)
    ELSE IF IsSome(Get(raw, "msgtype")) /\ IsSome(Get(raw, "body"))
        THEN Deserialized(raw, "RoomMessage", TRUE)
    ELSE Undeserializable

\* decimal digits of n, zero-padded to width
Digit(d) == <<"0", "1", "2", "3", "4", "5", "6", "7", "8", "9">>[d + 1]
RECURSIVE Padded(_, _)
Padded(n, width) ==
    IF width = 0 THEN <<>> ELSE Append(Padded(n \div 10, width - 1), Digit(n % 10))

\* A count of milliseconds since the epoch, held as whole days and the
\* milliseconds within the day (the count itself exceeds the integers TLC has)
Millis(days, in_day) == [days |-> days, in_day |-> in_day]
EPOCH == Millis(0, 0)
END_OF_FIRST_DAY == Millis(0, 86399999)
SECOND_DAY == Millis(1, 0)
\* the largest origin_server_ts an event can carry: 2^53 - 1 milliseconds
UINT_MAX == Millis(104249991, 32340991)

\* the proleptic Gregorian date of a day counted from 1970-01-01
CivilFromDays(days) ==
    LET z == days + 719468
        era == z \div 146097
        doe == z - era * 146097
        yoe == (doe - doe \div 1460 + doe \div 36524 - doe \div 146096) \div 365
        doy == doe - (365 * yoe + yoe \div 4 - yoe \div 100)
        mp == (5 * doy + 2) \div 153
        month == IF mp < 10 THEN mp + 3 ELSE mp - 9
    IN  [year |-> yoe + era * 400 + (IF month <= 2 THEN 1 ELSE 0),
         month |-> month,
         day |-> doy - (153 * mp + 2) \div 5 + 1]

\* the last year a DateTime holds
MAX_YEAR == 262142

\* DateTime::from_timestamp_millis: None when the date is out of range
from_timestamp_millis(ms) ==
    IF CivilFromDays(ms.days).year > MAX_YEAR THEN None ELSE Some(ms)

\* DateTime::to_rfc3339_opts(SecondsFormat::Millis, true), for years up to 9999
to_rfc3339_opts(ms) ==
    LET date == CivilFromDays(ms.days)
    IN  Padded(date.year, 4) \o <<"-">> \o Padded(date.month, 2)
        \o <<"-">> \o Padded(date.day, 2)
        \o <<"T">> \o Padded(ms.in_day \div 3600000, 2)
        \o <<":">> \o Padded((ms.in_day % 3600000) \div 60000, 2)
        \o <<":">> \o Padded((ms.in_day % 60000) \div 1000, 2)
        \o <<".">> \o Padded(ms.in_day % 1000, 3) \o <<"Z">>

\* a plausible slip: the display name never shown
event_sender_string_representation_BareId(event_sender_display_name, event_sender_id_string) ==
    event_sender_id_string

\* lines 117-121
event_sender_string_representation(event_sender_display_name, event_sender_id_string) ==
    IF IsSome(event_sender_display_name)
    THEN Unwrap(event_sender_display_name) \o <<" ", "(">> \o event_sender_id_string \o <<")">>
    ELSE event_sender_id_string

PLACEHOLDER_MESSAGE ==
    <<"[", "P", "l", "a", "c", "e", "h", "o", "l", "d", "e", "r", " ",
      "m", "e", "s", "s", "a", "g", "e", "]">>
PLACEHOLDER_REDACTED ==
    <<"[", "P", "l", "a", "c", "e", "h", "o", "l", "d", "e", "r", " ",
      "r", "e", "d", "a", "c", "t", "e", "d", " ", "m", "e", "s", "s", "a", "g", "e", "]">>
PLACEHOLDER_MESSAGE_LIKE ==
    <<"[", "P", "l", "a", "c", "e", "h", "o", "l", "d", "e", "r", " ",
      "m", "e", "s", "s", "a", "g", "e", "-", "l", "i", "k", "e", "]">>
PLACEHOLDER_STATE ==
    <<"[", "P", "l", "a", "c", "e", "h", "o", "l", "d", "e", "r", " ",
      "s", "t", "a", "t", "e", "-", "l", "i", "k", "e", "]">>
SKIPPED ==
    <<"[", "M", "e", "s", "s", "a", "g", "e", " ", "s", "k", "i", "p", "p", "e", "d", " ",
      "d", "u", "e", " ", "t", "o", " ",
      "d", "e", "s", "e", "r", "i", "a", "l", "i", "z", "a", "t", "i", "o", "n", " ",
      "f", "a", "i", "l", "u", "r", "e", "]">>

\* a plausible slip: the notice rendered like a text message
event_stringified_NoticeAsText(event_deserialized, timestamp, sender) ==
    IF event_deserialized.kind = "State" THEN PLACEHOLDER_STATE
    ELSE IF event_deserialized.kind # "RoomMessage" THEN PLACEHOLDER_MESSAGE_LIKE
    ELSE IF ~event_deserialized.original THEN PLACEHOLDER_REDACTED
    ELSE IF event_deserialized.msgtype = "m.emote"
        THEN <<"[">> \o timestamp \o <<"]", " ">> \o sender \o <<":", " ", "*">>
             \o event_deserialized.body \o <<"*">>
    ELSE IF event_deserialized.msgtype \in {"m.text", "m.notice"}
        THEN <<"[">> \o timestamp \o <<"]", " ">> \o sender \o <<":", " ">>
             \o event_deserialized.body
    ELSE PLACEHOLDER_MESSAGE

\* lines 123-138: the line of an interpreted event
event_stringified(event_deserialized, timestamp, sender) ==
    IF event_deserialized.kind = "State" THEN PLACEHOLDER_STATE
    ELSE IF event_deserialized.kind # "RoomMessage" THEN PLACEHOLDER_MESSAGE_LIKE
    ELSE IF ~event_deserialized.original THEN PLACEHOLDER_REDACTED
    ELSE IF event_deserialized.msgtype = "m.emote"
        THEN <<"[">> \o timestamp \o <<"]", " ">> \o sender \o <<":", " ", "*">>
             \o event_deserialized.body \o <<"*">>
    ELSE IF event_deserialized.msgtype = "m.notice"
        THEN <<"[">> \o timestamp \o <<"]", " ">> \o sender \o <<":", " ", "[">>
             \o event_deserialized.body \o <<"]">>
    ELSE IF event_deserialized.msgtype = "m.text"
        THEN <<"[">> \o timestamp \o <<"]", " ">> \o sender \o <<":", " ">>
             \o event_deserialized.body
    ELSE PLACEHOLDER_MESSAGE

\* serde_json::Value of a payload: the object as a sorted map from key to value
deserialize_as_Value(raw) ==
    [key \in {raw[k][1] : k \in 1..Len(raw)} |-> Unwrap(Get(raw, key))]

\* the keys of the payloads in the order a sorted map iterates them
KeyOrder ==
    <<"body", "msgtype", "origin_server_ts", "redacted_because", "sender", "state_key", "type">>

\* serde_json::to_string_pretty(&Vec<Value>): the array, each object printed
\* as its members in map order
to_string_pretty(values) ==
    [k \in 1..Len(values) |->
        LET present == [i \in 1..Len(KeyOrder) |-> KeyOrder[i] \in DOMAIN values[k]]
            keys == Filter(KeyOrder, present)
        IN  [i \in 1..Len(keys) |-> <<keys[i], values[k][keys[i]]>>]]

\* serde_json::from_str::<Vec<Value>>: the printed array read back
from_str(text) == [k \in 1..Len(text) |-> deserialize_as_Value(text[k])]

\* a plausible slip: events the Readable render cannot interpret left out
messages_to_json_InterpretedOnly(batch) ==
    LET interpreted == [k \in 1..Len(batch) |-> deserialize(batch[k].event).ok]
        kept == Filter(batch, interpreted)
    IN  to_string_pretty([k \in 1..Len(kept) |-> deserialize_as_Value(kept[k].event)])

\* lines 74-85
messages_to_json(batch) ==
    to_string_pretty([k \in 1..Len(batch) |-> deserialize_as_Value(batch[k].event)])

---------------------------------------------------------------------------
(* One render pass over a batch *)

MaxEvents == 2          \* events in a rendered batch

\* TimelineEvent: the raw payload (the render reads nothing else of it)
TimelineEvent(raw) == [event |-> raw]
RawEvent(type, sender, origin_server_ts, rest) ==
    <<<<"type", type>>, <<"sender", sender>>, <<"origin_server_ts", origin_server_ts>>>>
    \o rest
RoomMessage(sender, origin_server_ts, msgtype, text) ==
    TimelineEvent(RawEvent("m.room.message", sender, origin_server_ts,
                           <<<<"msgtype", msgtype>>, <<"body", text>>>>))

Senders == {USER_1, USER_2}
RenderEvents ==
    {RoomMessage(USER_1, EPOCH, "m.text", BODY_HI),
     RoomMessage(USER_2, END_OF_FIRST_DAY, "m.text", BODY_HI),
     RoomMessage(USER_1, SECOND_DAY, "m.emote", BODY_HI),
     RoomMessage(USER_2, EPOCH, "m.notice", BODY_TWO_LINES),
     RoomMessage(USER_1, EPOCH, "m.image", BODY_HI),
     RoomMessage(USER_1, UINT_MAX, "m.text", BODY_HI),
     TimelineEvent(RawEvent("m.room.message", USER_1, EPOCH, <<<<"redacted_because", 1>>>>)),
     TimelineEvent(RawEvent("m.reaction", USER_2, EPOCH, <<>>)),
     TimelineEvent(RawEvent("m.room.topic", USER_1, EPOCH, <<<<"state_key", <<>>>>>>)),
     TimelineEvent(<<<<"type", "m.room.message">>, <<"origin_server_ts", EPOCH>>>>),
     TimelineEvent(RawEvent("m.room.message", USER_2, EPOCH, <<<<"msgtype", "m.text">>>>))}

\* Option<RoomMember> of a sender: not a member, a member without display
\* name, a member with one
Memberships ==
    {None, Some([display_name |-> None]), Some([display_name |-> Some(DISPLAY_NAME)])}

InitRender ==
    /\ events \in UNION {[1..n -> RenderEvents] : n \in 0..MaxEvents}
    /\ members \in [Senders -> Memberships]
    /\ event_index = 0
    /\ room_export = <<>>
    /\ user_ids_to_display_names = <<>>
    /\ member_lookups = <<>>
    /\ json_output = None
    /\ pc = "render"
    /\ result = "Running"
    /\ joined_rooms = <<>>
    /\ accessible_rooms_info = <<>>
    /\ rooms = <<>>
    /\ output_path = "None"
    /\ formats = {"Json", "Txt"}
    /\ next_identifier = 0
    /\ room_identifier = None
    /\ resolution = NoRoomsWithSpecifiedName
    /\ server_history = <<>>
    /\ last_end_token = None
    /\ requests = 0
    /\ page_requests = <<>>
    /\ writes = <<>>
    /\ stdout = <<>>
    /\ fs_calls = <<>>
    /\ base_output_filename = None
    /\ NoStore
    /\ NoCli

export_vars == <<joined_rooms, accessible_rooms_info, rooms, output_path, formats,
                 next_identifier, room_identifier, resolution, server_history,
                 last_end_token, requests, page_requests, writes, stdout, fs_calls,
                 base_output_filename, session_vars, cli_vars>>

\* line 194: messages_to_json(&events)
MessagesToJson ==
    /\ pc = "render"
    /\ event_index = 0
    /\ json_output = None
    /\ json_output' = Some(messages_to_json(events))
    /\ UNCHANGED <<export_vars, events, pc, result, members, event_index, room_export,
                   user_ids_to_display_names, member_lookups>>

\* the event the for loop of messages_to_txt takes next
event_deserialized == deserialize(events[event_index + 1].event)
event_sender_id_string == event_deserialized.sender
event_timestamp == from_timestamp_millis(event_deserialized.origin_server_ts)
event_timestamp_string_representation == to_rfc3339_opts(Unwrap(event_timestamp))
Line(event_sender_display_name) ==
    event_stringified(event_deserialized, event_timestamp_string_representation,
                      event_sender_string_representation(event_sender_display_name,
                                                         event_sender_id_string))
    \o <<"\n">>

\* lines 92-99: the payload cannot be interpreted
RenderSkipped ==
    /\ pc = "render"
    /\ event_index < Len(events)
    /\ ~event_deserialized.ok
    /\ room_export' = room_export \o SKIPPED \o <<"\n">>
    /\ event_index' = event_index + 1
    /\ UNCHANGED <<export_vars, events, pc, result, members, user_ids_to_display_names,
                   member_lookups, json_output>>

\* lines 101-102: the timestamp is beyond the dates a DateTime holds; expect panics
RenderTimestampPanics ==
    /\ pc = "render"
    /\ event_index < Len(events)
    /\ event_deserialized.ok
    /\ ~IsSome(event_timestamp)
    /\ result' = "Panic"
    /\ pc' = "done"
    /\ UNCHANGED <<export_vars, events, members, event_index, room_export,
                   user_ids_to_display_names, member_lookups, json_output>>

\* lines 101-107, 117-139: the sender's display name is in the map
RenderCached ==
    /\ pc = "render"
    /\ event_index < Len(events)
    /\ event_deserialized.ok
    /\ IsSome(event_timestamp)
    /\ event_sender_id_string \in DOMAIN user_ids_to_display_names
    /\ room_export' = room_export \o Line(user_ids_to_display_names[event_sender_id_string])
    /\ event_index' = event_index + 1
    /\ UNCHANGED <<export_vars, events, pc, result, members, user_ids_to_display_names,
                   member_lookups, json_output>>

\* lines 108-116: the sender is not in the map and the member lookup answers;
\* a member's display name is inserted, a non-member is not
RenderLookedUp ==
    /\ pc = "render"
    /\ event_index < Len(events)
    /\ event_deserialized.ok
    /\ IsSome(event_timestamp)
    /\ event_sender_id_string \notin DOMAIN user_ids_to_display_names
    /\ member_lookups' = Append(member_lookups, event_sender_id_string)
    /\ LET room_member == members[event_sender_id_string]
       IN  IF IsSome(room_member)
           THEN /\ user_ids_to_display_names' =
                       [id \in DOMAIN user_ids_to_display_names \cup {event_sender_id_string} |->
                           IF id = event_sender_id_string
                           THEN Unwrap(room_member).display_name
                           ELSE user_ids_to_display_names[id]]
                /\ room_export' = room_export \o Line(Unwrap(room_member).display_name)
           ELSE /\ UNCHANGED user_ids_to_display_names
                /\ room_export' = room_export \o Line(None)
    /\ event_index' = event_index + 1
    /\ UNCHANGED <<export_vars, events, pc, result, members, json_output>>

\* line 108: the member lookup fails; `?` returns the error
RenderLookupFails ==
    /\ pc = "render"
    /\ event_index < Len(events)
    /\ event_deserialized.ok
    /\ IsSome(event_timestamp)
    /\ event_sender_id_string \notin DOMAIN user_ids_to_display_names
    /\ member_lookups' = Append(member_lookups, event_sender_id_string)
    /\ result' = "ErrRender"
    /\ pc' = "done"
    /\ UNCHANGED <<export_vars, events, members, event_index, room_export,
                   user_ids_to_display_names, json_output>>

\* line 142: Ok(room_export)
RenderReturns ==
    /\ pc = "render"
    /\ event_index = Len(events)
    /\ result' = "Ok"
    /\ pc' = "done"
    /\ UNCHANGED <<export_vars, events, members, event_index, room_export,
                   user_ids_to_display_names, member_lookups, json_output>>

NextRender ==
    \/ MessagesToJson
    \/ RenderSkipped
    \/ RenderTimestampPanics
    \/ RenderCached
    \/ RenderLookedUp
    \/ RenderLookupFails
    \/ RenderReturns

SpecRender == InitRender /\ [][NextRender]_vars

---------------------------------------------------------------------------
(* Claims about the renders, checked under SpecRender *)

\* one turn of the for loop of messages_to_txt, and what it appended
Took == event_index' = event_index + 1
NewEntry == SubSeq(room_export', Len(room_export) + 1, Len(room_export'))
Interpreted(k) == deserialize(events[k].event).ok

\* C16: every turn of the render loop appends exactly one entry ending in a
\* line break, for the next event of the batch; the entry is the sentinel line
\* exactly when the payload cannot be interpreted, and then the loop goes on;
\* a render ends either on a failed member lookup or with an entry for every
\* event of the batch.
RenderStep ==
    /\ room_export' # room_export => Took
    /\ event_index' # event_index =>
          /\ Took
          /\ event_index < Len(events)
          /\ Len(room_export') > Len(room_export)
          /\ SubSeq(room_export', 1, Len(room_export)) = room_export
          /\ room_export'[Len(room_export')] = "\n"
          /\ ~Interpreted(event_index + 1) <=> NewEntry = SKIPPED \o <<"\n">>
RenderEnd ==
    pc = "done" =>
        \/ result = "Ok" /\ event_index = Len(events)
        \/ /\ result = "ErrRender"
           /\ event_index < Len(events)
           /\ Interpreted(event_index + 1)
           /\ member_lookups # <<>>
           /\ member_lookups[Len(member_lookups)] = deserialize(events[event_index + 1].event).sender
C16_OneEntryPerEvent ==
    []RenderEnd /\ [][RenderStep]_vars

\* the two forms a sender is written in
SenderForms(id) == {id, DISPLAY_NAME \o <<" ", "(">> \o id \o <<")">>}
Stamp(e) == <<"[">> \o to_rfc3339_opts(e.origin_server_ts) \o <<"]", " ">>

\* C17: an interpreted event is rendered by the one case of its kind: text
\* "[timestamp] sender: body", emote "[timestamp] sender: *body*", notice
\* "[timestamp] sender: [body]", another subtype the message placeholder, a
\* redacted room message the redaction placeholder, another message-like
\* kind the message-like placeholder, a state event the state placeholder;
\* the seven lines differ from one another.
RenderCase ==
    (Took /\ Interpreted(event_index + 1)) =>
        LET e == event_deserialized
            message == e.kind = "RoomMessage" /\ e.original
        IN  \E s \in SenderForms(e.sender) :
               NewEntry =
                  (CASE message /\ e.msgtype = "m.text" ->
                            Stamp(e) \o s \o <<":", " ">> \o e.body
                     [] message /\ e.msgtype = "m.emote" ->
                            Stamp(e) \o s \o <<":", " ", "*">> \o e.body \o <<"*">>
                     [] message /\ e.msgtype = "m.notice" ->
                            Stamp(e) \o s \o <<":", " ", "[">> \o e.body \o <<"]">>
                     [] message /\ e.msgtype \notin {"m.text", "m.emote", "m.notice"} ->
                            PLACEHOLDER_MESSAGE
                     [] e.kind = "RoomMessage" /\ ~e.original -> PLACEHOLDER_REDACTED
                     [] e.kind = "MessageLike" -> PLACEHOLDER_MESSAGE_LIKE
                     [] e.kind = "State" -> PLACEHOLDER_STATE)
                  \o <<"\n">>
PlaceholdersDiffer ==
    Cardinality({PLACEHOLDER_MESSAGE, PLACEHOLDER_REDACTED, PLACEHOLDER_MESSAGE_LIKE,
                 PLACEHOLDER_STATE, SKIPPED}) = 5
C17_OneCasePerKind ==
    []PlaceholdersDiffer /\ [][RenderCase]_vars

\* C17 witness: a notice and then an emote were rendered
C17_Witness ==
    /\ event_index = 2
    /\ Interpreted(1) /\ deserialize(events[1].event).msgtype = "m.notice"
    /\ Interpreted(2) /\ deserialize(events[2].event).msgtype = "m.emote"
    /\ room_export[Len(room_export) - 1] = "*"

EXAMPLE_LINE ==
    <<"[", "1", "9", "7", "0", "-", "0", "1", "-", "0", "1", "T",
      "0", "0", ":", "0", "0", ":", "0", "0", ".", "0", "0", "0", "Z", "]", " ",
      "@", "u", "s", "e", "r", ":", "e", "x", "a", "m", "p", "l", "e", ".", "o", "r", "g",
      ":", " ", "h", "i", "\n">>
NameKnown(id) == IsSome(members[id]) /\ IsSome(Unwrap(members[id]).display_name)

\* C18: in a text, emote or notice line the sender, which follows the 27
\* characters of "[timestamp] ", is "Name (sender_id)" exactly when the sender
\* is a member with a display name and the bare sender id otherwise; the text
\* "hi" of @user:example.org without display name at millisecond 0 is rendered
\* as "[1970-01-01T00:00:00.000Z] @user:example.org: hi" and a line break.
SenderWritten ==
    (/\ Took
     /\ Interpreted(event_index + 1)
     /\ event_deserialized.kind = "RoomMessage" /\ event_deserialized.original
     /\ event_deserialized.msgtype \in {"m.text", "m.emote", "m.notice"}) =>
        LET id == event_deserialized.sender
            s == IF NameKnown(id)
                 THEN Unwrap(Unwrap(members[id]).display_name) \o <<" ", "(">> \o id \o <<")">>
                 ELSE id
        IN  /\ SubSeq(NewEntry, 28, 27 + Len(s) + 2) = s \o <<":", " ">>
            /\ (events[event_index + 1] = RoomMessage(USER_1, EPOCH, "m.text", BODY_HI)
                /\ ~NameKnown(USER_1)) => NewEntry = EXAMPLE_LINE
C18_SenderNameOrId ==
    [][SenderWritten]_vars

\* C18 witness: the example line was written for a sender without display
\* name, then a line for a sender with one
C18_Witness ==
    /\ event_index = 2
    /\ events[1] = RoomMessage(USER_1, EPOCH, "m.text", BODY_HI)
    /\ events[2] = RoomMessage(USER_2, END_OF_FIRST_DAY, "m.text", BODY_HI)
    /\ ~NameKnown(USER_1) /\ NameKnown(USER_2)
    /\ SubSeq(room_export, 1, Len(EXAMPLE_LINE)) = EXAMPLE_LINE
    /\ Len(room_export) > Len(EXAMPLE_LINE)

C25_OneLookupPerSender ==
    /\ \A i, j \in 1..Len(member_lookups) :
          member_lookups[i] = member_lookups[j] => i = j
    /\ \A id \in DOMAIN user_ids_to_display_names :
          \E i \in 1..Len(member_lookups) : member_lookups[i] = id

---------------------------------------------------------------------------
(* The file name on its own: format_export_filename over rooms with names,
   canonical aliases and ids of several shapes *)

ID_TEAM ==
    <<"!", "a", "b", "c", "1", "2", "3", ":", "e", "x", "a", "m", "p", "l", "e", ".", "o", "r", "g">>
ID_PORT == <<"!", "a", ":", "x", ":", "8", "4", "4", "8">>
ALIAS_TEAM ==
    <<"#", "t", "e", "a", "m", ":", "e", "x", "a", "m", "p", "l", "e", ".", "o", "r", "g">>
NAME_TEAM == <<"T", "e", "a", "m">>
NAME_COLON == <<"a", ":", "b">>

FilenameRooms ==
    {RoomWithCachedInfo(id, n, a, <<>>) :
        id \in {ID_A, ID_B, ID_TEAM, ID_PORT},
        n \in {None, Some(NAME_TEAM), Some(NAME_N), Some(NAME_COLON)},
        a \in {None, Some(ALIAS_TEAM), Some(ALIAS_P), Some(ALIAS_Q)}}

\* the directory holds the one room whose file is to be named
InitFilename ==
    /\ joined_rooms \in {<<r>> : r \in FilenameRooms}
    /\ accessible_rooms_info = get_rooms_info(joined_rooms)
    /\ base_output_filename = None
    /\ rooms = <<>>
    /\ output_path = "None"
    /\ formats = {}
    /\ pc = "name"
    /\ next_identifier = 0
    /\ room_identifier = None
    /\ resolution = Ok(0)
    /\ server_history = <<>>
    /\ events = <<>>
    /\ last_end_token = None
    /\ requests = 0
    /\ page_requests = <<>>
    /\ writes = <<>>
    /\ stdout = <<>>
    /\ fs_calls = <<>>
    /\ result = "Running"
    /\ NoRender
    /\ NoStore
    /\ NoCli

\* line 192: format_export_filename(&room_to_export_info)
FormatExportFilename ==
    /\ pc = "name"
    /\ base_output_filename' =
           Some(format_export_filename(accessible_rooms_info[resolution.index + 1]))
    /\ pc' = "named"
    /\ UNCHANGED <<render_vars, session_vars, cli_vars, joined_rooms, accessible_rooms_info, rooms, output_path,
                   formats, next_identifier, room_identifier, resolution, server_history,
                   events, last_end_token, requests, page_requests, writes, stdout, fs_calls, result>>

SpecFilename == InitFilename /\ [][FormatExportFilename]_vars

\* the room whose file is named, and the text of s before and after its
\* first colon, with the first `drop` characters of s left out
Named == accessible_rooms_info[resolution.index + 1]
FirstColon(s) == CHOOSE k \in 1..Len(s) : s[k] = ":" /\ \A j \in 1..(k - 1) : s[j] # ":"
Localpart(s, drop) == SubSeq(s, 1 + drop, FirstColon(s) - 1)
Server(s) == SubSeq(s, FirstColon(s) + 1, Len(s))

\* the stem the four templates give for localparts taken after `drop` characters
Stem(drop) ==
    LET name == Named.name
        alias == Named.canonical_alias
        id_local == Localpart(Named.id, drop)
        server == Server(Named.id)
    IN  IF IsSome(name) /\ IsSome(alias)
            THEN Unwrap(name) \o <<" ", "[">> \o Localpart(Unwrap(alias), drop)
                 \o <<",", " ">> \o id_local \o <<",", " ">> \o server \o <<"]">>
        ELSE IF IsSome(name)
            THEN Unwrap(name) \o <<" ", "[">> \o id_local \o <<",", " ">> \o server \o <<"]">>
        ELSE IF IsSome(alias)
            THEN Localpart(Unwrap(alias), drop) \o <<" ", "[">> \o id_local
                 \o <<",", " ">> \o server \o <<"]">>
        ELSE id_local \o <<" ", "[">> \o server \o <<"]">>
TeamRoom == Named = RoomWithCachedInfo(ID_TEAM, Some(NAME_TEAM), Some(ALIAS_TEAM), <<>>)

\* C19: the stem follows the four templates, the localparts being those of
\* the id and of the alias without their sigil; for the room "Team",
\* #team:example.org, !abc123:example.org it is
\* "Team [team, abc123, example.org]".
C19_FilenameStem ==
    IsSome(base_output_filename) =>
        /\ Unwrap(base_output_filename) = Stem(1)
        /\ TeamRoom =>
              Unwrap(base_output_filename) =
                 <<"T", "e", "a", "m", " ", "[", "t", "e", "a", "m", ",", " ",
                   "a", "b", "c", "1", "2", "3", ",", " ",
                   "e", "x", "a", "m", "p", "l", "e", ".", "o", "r", "g", "]">>

\* C19 as amended: the stem follows the four templates, the localparts being
\* the text of the id and of the alias before their first colon, sigil
\* included, and the server the text of the id after it; for the room "Team",
\* #team:example.org, !abc123:example.org it is
\* "Team [#team, !abc123, example.org]".
C19_FilenameStemAmended ==
    IsSome(base_output_filename) =>
        /\ Unwrap(base_output_filename) = Stem(0)
        /\ TeamRoom =>
              Unwrap(base_output_filename) =
                 <<"T", "e", "a", "m", " ", "[", "#", "t", "e", "a", "m", ",", " ",
                   "!", "a", "b", "c", "1", "2", "3", ",", " ",
                   "e", "x", "a", "m", "p", "l", "e", ".", "o", "r", "g", "]">>

\* C19 witness: the stem of the room of the example
C19_Witness ==
    /\ IsSome(base_output_filename)
    /\ TeamRoom

---------------------------------------------------------------------------
(* lib.rs: SessionsFile *)

MaxSessions == 2    \* records in the sessions file when it is opened
MaxWrites == 3      \* rewrites of the sessions file followed in one run

USER_A == <<"@", "a", ":", "x">>
DEVICE_1 == <<"D", "1">>
DEVICE_2 == <<"D", "2">>
ACCESS_TOKEN == <<"t", "o", "k">>

Session(user_id, device_id) ==
    [user_id |-> user_id, device_id |-> device_id,
     access_token |-> ACCESS_TOKEN, refresh_token |-> None]

\* Result<_, String>
StoreOk(value) == [tag |-> "Ok", value |-> value]
StoreErr(message) == [tag |-> "Err", message |-> message]

\* the two messages of lines 77, 88 and 98, as template and interpolated id
NOT_FOUND(user_id) ==
    <<"Couldn't find currently-existing login session for user_id {}.", user_id>>
ALREADY_EXISTS(user_id) ==
    <<"Tried to create new session with user_id {}, but you already have a logged-in session with that user ID.",
      user_id>>

\* serde_json::to_string(&self.sessions): an array of objects, the fields in
\* declaration order
sessions_to_string(list) ==
    [i \in 1..Len(list) |->
        << <<"user_id", list[i].user_id>>, <<"device_id", list[i].device_id>>,
           <<"access_token", list[i].access_token>>,
           <<"refresh_token", list[i].refresh_token>> >>]

\* serde_json::from_str of SessionsFile::open: the fields by name
FieldOf(object, key) ==
    LET at == CHOOSE k \in 1..Len(object) : object[k][1] = key IN object[at][2]
sessions_from_str(text) ==
    [i \in 1..Len(text) |->
        [user_id |-> FieldOf(text[i], "user_id"),
         device_id |-> FieldOf(text[i], "device_id"),
         access_token |-> FieldOf(text[i], "access_token"),
         refresh_token |-> FieldOf(text[i], "refresh_token")]]

\* iter().position(|session| session.user_id == user_id), 0-based, as Option
SessionPosition(list, user_id) ==
    LET hits == {i \in 1..Len(list) : list[i].user_id = user_id}
    IN  IF hits = {} THEN None
        ELSE Some((CHOOSE i \in hits : \A j \in hits : i <= j) - 1)

\* Vec::remove(index), 0-based
Remove(list, index) ==
    [k \in 1..(Len(list) - 1) |-> IF k <= index THEN list[k] ELSE list[k + 1]]

\* lines 74-79
get(list, user_id) ==
    LET found == SessionPosition(list, user_id)
    IN  IF IsSome(found) THEN StoreOk(list[Unwrap(found) + 1])
        ELSE StoreErr(NOT_FOUND(user_id))

\* Each mutating call gives the list afterwards, whether write() ran, and
\* what is returned.

\* a plausible slip: deleting a missing record counts as done
delete_session_Silent(list, user_id) ==
    LET found == SessionPosition(list, user_id)
    IN  IF IsSome(found)
        THEN [sessions |-> Remove(list, Unwrap(found)), written |-> TRUE,
              returned |-> StoreOk(<<>>)]
        ELSE [sessions |-> list, written |-> FALSE, returned |-> StoreOk(<<>>)]

\* lines 81-90
delete_session(list, user_id) ==
    LET found == SessionPosition(list, user_id)
    IN  IF IsSome(found)
        THEN [sessions |-> Remove(list, Unwrap(found)), written |-> TRUE,
              returned |-> StoreOk(<<>>)]
        ELSE [sessions |-> list, written |-> FALSE,
              returned |-> StoreErr(NOT_FOUND(user_id))]

\* a plausible slip: the new record goes first
new_session_Prepends(list, session) ==
    IF ~ \E i \in 1..Len(list) : list[i].user_id = session.user_id
    THEN [sessions |-> <<session>> \o list, written |-> TRUE, returned |-> StoreOk(<<>>)]
    ELSE [sessions |-> list, written |-> FALSE,
          returned |-> StoreErr(ALREADY_EXISTS(session.user_id))]

\* lines 92-100
new_session(list, session) ==
    IF ~ \E i \in 1..Len(list) : list[i].user_id = session.user_id
    THEN [sessions |-> Append(list, session), written |-> TRUE, returned |-> StoreOk(<<>>)]
    ELSE [sessions |-> list, written |-> FALSE,
          returned |-> StoreErr(ALREADY_EXISTS(session.user_id))]

\* lines 156-162
add_at_to_user_id_if_applicable(user_id) ==
    IF Len(user_id) > 0 /\ user_id[1] = "@" THEN user_id ELSE <<"@">> \o user_id

\* no export is running
NoExport ==
    /\ joined_rooms = <<>>
    /\ accessible_rooms_info = <<>>
    /\ rooms = <<>>
    /\ output_path = "None"
    /\ formats = {}
    /\ pc = "none"
    /\ next_identifier = 0
    /\ room_identifier = None
    /\ resolution = NoRoomsWithSpecifiedName
    /\ server_history = <<>>
    /\ events = <<>>
    /\ last_end_token = None
    /\ requests = 0
    /\ page_requests = <<>>
    /\ writes = <<>>
    /\ stdout = <<>>
    /\ fs_calls = <<>>
    /\ base_output_filename = None
    /\ result = "Running"
    /\ NoRender

\* the state of an export run apart from formats, pc and stdout
run_vars == <<joined_rooms, accessible_rooms_info, rooms, output_path, next_identifier,
              room_identifier, resolution, server_history, events, last_end_token,
              requests, page_requests, writes, fs_calls, result, base_output_filename,
              render_vars>>

\* the ids the server gives to accounts, and what a user may type for them
AccountIds == {USER_A, USER_2}
TypedUserIds == AccountIds \cup {Tail(USER_A)}
Sessions == {Session(u, d) : u \in AccountIds, d \in {DEVICE_1, DEVICE_2}}

DistinctUserIds(list) ==
    \A i, j \in 1..Len(list) : list[i].user_id = list[j].user_id => i = j

\* SessionsFile::open (lines 57-72) has read the file: list and file agree
InitStore ==
    /\ sessions \in {list \in UNION {[1..n -> Sessions] : n \in 0..MaxSessions} :
                        DistinctUserIds(list)}
    /\ sessions_disk = sessions_to_string(sessions)
    /\ disk_writes = 0
    /\ store_call = None
    /\ NoExport
    /\ NoCli

StoreCall(op, argument, returned) ==
    Some([op |-> op, argument |-> argument, returned |-> returned])

\* lines 102-105 after a call that gave `outcome`
Write(outcome) ==
    /\ sessions' = outcome.sessions
    /\ IF outcome.written
       THEN /\ sessions_disk' = sessions_to_string(outcome.sessions)
            /\ disk_writes' = disk_writes + 1
       ELSE UNCHANGED <<sessions_disk, disk_writes>>

\* a call of get
GetSession(user_id) ==
    /\ store_call' = StoreCall("get", user_id, get(sessions, user_id))
    /\ UNCHANGED <<sessions, sessions_disk, disk_writes>>
    /\ UNCHANGED <<run_vars, formats, pc, stdout, cli_vars>>

\* a call of delete_session
DeleteSession(user_id) ==
    /\ disk_writes < MaxWrites
    /\ LET outcome == delete_session(sessions, user_id)
       IN  /\ Write(outcome)
           /\ store_call' = StoreCall("delete_session", user_id, outcome.returned)
    /\ UNCHANGED <<run_vars, formats, pc, stdout, cli_vars>>

\* a call of new_session
NewSession(session) ==
    /\ disk_writes < MaxWrites
    /\ LET outcome == new_session(sessions, session)
       IN  /\ Write(outcome)
           /\ store_call' = StoreCall("new_session", session, outcome.returned)
    /\ UNCHANGED <<run_vars, formats, pc, stdout, cli_vars>>

\* what a logout command returned: how it ended and the account it logged
\* out on the server, if it did
LogoutReturned(tag, logged_out) == [tag |-> tag, logged_out |-> logged_out]

\* main.rs:408-414 with nonfirst_login (main.rs:229-246): the session is
\* looked up under the normalized id, the client is restored and logged out
\* on the server (either can fail and `?` returns the error), then the record
\* is deleted under the id as typed and the result unwrapped
SessionLogout(user_id) ==
    /\ disk_writes < MaxWrites
    /\ LET normalized_user_id == add_at_to_user_id_if_applicable(user_id)
           session == get(sessions, normalized_user_id)
           outcome == delete_session(sessions, user_id)
       IN  IF session.tag = "Err"
           THEN /\ store_call' = StoreCall("session_logout", user_id,
                                           LogoutReturned("Panic", None))
                /\ UNCHANGED <<sessions, sessions_disk, disk_writes>>
           ELSE \/ /\ store_call' = StoreCall("session_logout", user_id,
                                              LogoutReturned("Err", None))
                   /\ UNCHANGED <<sessions, sessions_disk, disk_writes>>
                \/ /\ Write(outcome)
                   /\ store_call' = StoreCall("session_logout", user_id,
                          LogoutReturned(IF outcome.returned.tag = "Ok" THEN "Ok" ELSE "Panic",
                                         Some(session.value.user_id)))
    /\ UNCHANGED <<run_vars, formats, pc, stdout, cli_vars>>

\* lib.rs:206-211: the client of a stored session is logged out on the server
\* (`?` on failure), then the record of client.user_id() is deleted
Logout(client_user_id) ==
    /\ disk_writes < MaxWrites
    /\ get(sessions, client_user_id).tag = "Ok"
    /\ LET outcome == delete_session(sessions, client_user_id)
       IN  \/ /\ store_call' = StoreCall("logout", client_user_id,
                                         LogoutReturned("Err", None))
              /\ UNCHANGED <<sessions, sessions_disk, disk_writes>>
           \/ /\ Write(outcome)
              /\ store_call' = StoreCall("logout", client_user_id,
                     LogoutReturned(IF outcome.returned.tag = "Ok" THEN "Ok" ELSE "Panic",
                                    Some(client_user_id)))
    /\ UNCHANGED <<run_vars, formats, pc, stdout, cli_vars>>

NextStore ==
    \/ \E user_id \in TypedUserIds : GetSession(user_id)
    \/ \E user_id \in TypedUserIds : DeleteSession(user_id)
    \/ \E session \in Sessions : NewSession(session)
    \/ \E user_id \in TypedUserIds : SessionLogout(user_id)
    \/ \E client_user_id \in AccountIds : Logout(client_user_id)

SpecStore == InitStore /\ [][NextStore]_vars

---------------------------------------------------------------------------
(* Claims about the session store *)

Called(op) == IsSome(store_call') /\ store_call' # store_call /\ Unwrap(store_call').op = op
Stored(list, user_id) == \E i \in 1..Len(list) : list[i].user_id = user_id
RecordOf(list, user_id) == list[CHOOSE i \in 1..Len(list) : list[i].user_id = user_id]
Without(list, user_id) == SelectSeq(list, LAMBDA s : s.user_id # user_id)

GetOutcome ==
    LET call == Unwrap(store_call')
    IN  IF Stored(sessions, call.argument)
        THEN call.returned = StoreOk(RecordOf(sessions, call.argument))
        ELSE call.returned = StoreErr(NOT_FOUND(call.argument))

NewSessionOutcome ==
    LET call == Unwrap(store_call')
    IN  IF ~ Stored(sessions, call.argument.user_id)
        THEN /\ call.returned.tag = "Ok"
             /\ sessions' = sessions \o <<call.argument>>
        ELSE /\ call.returned = StoreErr(ALREADY_EXISTS(call.argument.user_id))

DeleteSessionOutcome ==
    LET call == Unwrap(store_call')
    IN  IF Stored(sessions, call.argument)
        THEN /\ call.returned.tag = "Ok"
             /\ sessions' = Without(sessions, call.argument)
        ELSE /\ call.returned = StoreErr(NOT_FOUND(call.argument))

StoreOutcome ==
    /\ Called("get") => GetOutcome
    /\ Called("new_session") => NewSessionOutcome
    /\ Called("delete_session") => DeleteSessionOutcome

\* C21: get returns the stored record of the user id, or the not-found error
\* when there is none; new_session appends the record and returns Ok when no
\* record has its user id, and the already-exists error otherwise;
\* delete_session removes the record and returns Ok when there is one, and the
\* not-found error otherwise.
C21_StoreOutcomes == [][StoreOutcome]_vars

\* C21 witness: each of the six outcomes has been returned at some point; here
\* the already-exists error of new_session
C21_Witness ==
    /\ IsSome(store_call)
    /\ Unwrap(store_call).op = "new_session"
    /\ Unwrap(store_call).returned.tag = "Err"
    /\ Len(sessions) = 2

Pos(list, user_id) == CHOOSE i \in 1..Len(list) : list[i].user_id = user_id
Survivors == {u \in AccountIds : Stored(sessions, u) /\ Stored(sessions', u)}
Added == {u \in AccountIds : ~ Stored(sessions, u) /\ Stored(sessions', u)}

\* the surviving records are the same records in the same order, and a new
\* record comes after them
OrderKept ==
    /\ \A u \in Survivors : RecordOf(sessions', u) = RecordOf(sessions, u)
    /\ \A u, v \in Survivors :
          Pos(sessions, u) < Pos(sessions, v) <=> Pos(sessions', u) < Pos(sessions', v)
    /\ \A u \in Added : \A v \in Survivors : Pos(sessions', v) < Pos(sessions', u)

StoreFrame ==
    /\ OrderKept
    /\ (Called("new_session") \/ Called("delete_session")) =>
          IF Unwrap(store_call').returned.tag = "Ok"
          THEN /\ disk_writes' = disk_writes + 1
               /\ sessions_from_str(sessions_disk') = sessions'
          ELSE UNCHANGED <<sessions, sessions_disk, disk_writes>>

\* C27: the list keeps pairwise distinct user ids, whatever calls are made;
\* every step keeps the surviving records in their insertion order; a
\* new_session or delete_session call that returns an error changes neither
\* the list nor the file and does not write it, and one that returns Ok has
\* written the file, whose content read back is the list.
C27_StoreKeepsDistinctOrderedAndPersisted ==
    [](DistinctUserIds(sessions)) /\ [][StoreFrame]_vars

\* C27 witness: a second record was added after an earlier rewrite
C27_Witness ==
    /\ Len(sessions) = 2
    /\ disk_writes >= 2
    /\ IsSome(store_call)
    /\ Unwrap(store_call).op = "new_session"
    /\ Unwrap(store_call).returned.tag = "Ok"

LoggedOutOnServer ==
    /\ IsSome(store_call')
    /\ store_call' # store_call
    /\ Unwrap(store_call').op \in {"session_logout", "logout"}
    /\ IsSome(Unwrap(store_call').returned.logged_out)

\* C28: a logout command that has logged the account out on the server
\* leaves no record of that account in the session store, whether the user id
\* was typed with or without the leading "@".
C28_LoggedOutMeansForgotten ==
    [][LoggedOutOnServer =>
          ~ Stored(sessions', Unwrap(Unwrap(store_call').returned.logged_out))]_vars

---------------------------------------------------------------------------
(* trace-cli.rs: the export and session login commands *)

MaxFlags == 2       \* -f flags on one command line

FLAG_JSON == <<"j", "s", "o", "n">>
FLAG_DOT_JSON == <<".", "J", "S", "O", "N">>
FLAG_TXT == <<"T", "x", "t">>
FLAG_DOT_TXT == <<".", "t", "x", "t">>
FLAG_XML == <<"x", "m", "l">>
FormatFlags == {FLAG_JSON, FLAG_DOT_JSON, FLAG_TXT, FLAG_DOT_TXT, FLAG_XML}

\* char::to_lowercase on the letters the flags use
LowerChar(c) ==
    CASE c = "J" -> "j" [] c = "S" -> "s" [] c = "O" -> "o" [] c = "N" -> "n"
      [] c = "T" -> "t" [] c = "X" -> "x" [] c = "M" -> "m" [] c = "L" -> "l"
      [] OTHER -> c
to_lowercase(str) == [k \in 1..Len(str) |-> LowerChar(str[k])]

\* what the loop over the flags gives: the set, or the panic of line 225
Parsed(inserted) == [invalid |-> FALSE, formats |-> inserted]
INVALID_FORMAT == [invalid |-> TRUE, formats |-> {}]

\* lines 221-227: the loop over config.formats from flag k on, `inserted` the
\* set so far; the panic of line 225 ends it
RECURSIVE InsertFormats(_, _, _)
InsertFormats(flags, k, inserted) ==
    IF k > Len(flags) THEN Parsed(inserted)
    ELSE LET format == to_lowercase(flags[k])
         IN  IF format \in {<<"j", "s", "o", "n">>, <<".", "j", "s", "o", "n">>}
             THEN InsertFormats(flags, k + 1, inserted \cup {"Json"})
             ELSE IF format \in {<<"t", "x", "t">>, <<".", "t", "x", "t">>}
             THEN InsertFormats(flags, k + 1, inserted \cup {"Txt"})
             ELSE INVALID_FORMAT

\* a plausible slip: the default left out
export_formats_NoDefault(flags) ==
    InsertFormats(flags, 1, {})

\* lines 220-230: the set handed to trace::export, or the panic
export_formats(flags) ==
    LET inserted == InsertFormats(flags, 1, {})
    IN  IF inserted.invalid THEN INVALID_FORMAT
        ELSE IF inserted.formats = {} THEN Parsed({"Json"})
        ELSE inserted

\* println! of lines 234 and 242, as template and interpolated count
Report(line, count) == [line |-> line, count |-> count]
EXPORTED_NOTHING == "Successfully exported 0 rooms. (This may not be what you meant to do.)"
EXPORTED == "Successfully exported {} rooms."

\* the accounts' rooms the command line runs against: one named room, one
\* unnamed room, two rooms of the same name; one event each
CliJoinedRooms ==
    {<<RoomWithCachedInfo(ID_A, Some(NAME_N), None, <<>>)>>,
     <<RoomWithCachedInfo(ID_A, None, None, <<>>)>>,
     <<RoomWithCachedInfo(ID_A, Some(NAME_N), None, <<>>),
       RoomWithCachedInfo(ID_B, Some(NAME_N), None, <<>>)>>}

FlagLists == UNION {[1..n -> FormatFlags] : n \in 0..MaxFlags}

\* main (lines 360-376) has opened the sessions file and parsed the command
\* line: an export command or a session login command
InitCli ==
    /\ cli_pc \in {"export", "session_login"}
    /\ config_user_id \in {USER_A, Tail(USER_A)}
    /\ sessions \in {<<>>, <<Session(USER_A, DEVICE_1)>>}
    /\ sessions_disk = sessions_to_string(sessions)
    /\ disk_writes = 0
    /\ store_call = None
    /\ cli_calls = <<>>
    /\ cli_result = "Running"
    /\ IF cli_pc = "export"
       THEN /\ config_formats \in FlagLists
            /\ rooms \in IdentifierLists(0, MaxIdentifiers)
            /\ output_path \in {"None", "Missing", "Dir", "NotDir"}
            /\ joined_rooms \in CliJoinedRooms
            /\ config_user_id = Tail(USER_A)
       ELSE /\ config_formats = <<>>
            /\ rooms = <<>>
            /\ output_path = "None"
            /\ joined_rooms = <<>>
    /\ server_history = [id \in RoomIdsOf(joined_rooms) |-> 1]
    /\ accessible_rooms_info = <<>>
    /\ formats = {}
    /\ pc = "none"
    /\ next_identifier = 0
    /\ room_identifier = None
    /\ resolution = NoRoomsWithSpecifiedName
    /\ events = <<>>
    /\ last_end_token = None
    /\ requests = 0
    /\ page_requests = <<>>
    /\ writes = <<>>
    /\ stdout = <<>>
    /\ fs_calls = <<>>
    /\ base_output_filename = None
    /\ result = "Running"
    /\ NoRender

\* the state of an export run that the command itself does not touch
library_vars == <<joined_rooms, accessible_rooms_info, rooms, output_path, next_identifier,
                  room_identifier, resolution, server_history, events, last_end_token,
                  requests, page_requests, writes, fs_calls, result, base_output_filename,
                  render_vars>>

\* line 225: a flag is not a format; panic
ExportFormatPanics ==
    /\ cli_pc = "export"
    /\ export_formats(config_formats).invalid
    /\ cli_result' = "Panic"
    /\ cli_pc' = "exported"
    /\ UNCHANGED <<library_vars, session_vars, formats, pc, stdout, config_user_id,
                   config_formats, cli_calls>>

\* lines 232-236: no identifier was given
ExportNothing ==
    /\ cli_pc = "export"
    /\ ~ export_formats(config_formats).invalid
    /\ Len(rooms) = 0
    /\ formats' = export_formats(config_formats).formats
    /\ stdout' = Append(stdout, Report(EXPORTED_NOTHING, 0))
    /\ cli_result' = "Ok"
    /\ cli_pc' = "exported"
    /\ UNCHANGED <<library_vars, session_vars, pc, config_user_id, config_formats, cli_calls>>

\* line 238 with lib.rs:165-166: no session is stored under the normalized
\* id; unwrap panics
ExportLoginPanics ==
    /\ cli_pc = "export"
    /\ ~ export_formats(config_formats).invalid
    /\ Len(rooms) > 0
    /\ get(sessions, add_at_to_user_id_if_applicable(config_user_id)).tag = "Err"
    /\ formats' = export_formats(config_formats).formats
    /\ cli_calls' = Append(cli_calls, "nonfirst_login")
    /\ cli_result' = "Panic"
    /\ cli_pc' = "exported"
    /\ UNCHANGED <<library_vars, session_vars, pc, stdout, config_user_id, config_formats>>

\* lines 238-239: restoring the session or the sync fails; `?` returns the error
ExportConnectFails ==
    /\ cli_pc = "export"
    /\ ~ export_formats(config_formats).invalid
    /\ Len(rooms) > 0
    /\ get(sessions, add_at_to_user_id_if_applicable(config_user_id)).tag = "Ok"
    /\ formats' = export_formats(config_formats).formats
    /\ \E made \in {<<"nonfirst_login">>, <<"nonfirst_login", "sync_once">>} :
          cli_calls' = cli_calls \o made
    /\ cli_result' = "Err"
    /\ cli_pc' = "exported"
    /\ UNCHANGED <<library_vars, session_vars, pc, stdout, config_user_id, config_formats>>

\* lines 238-240: logged in and synced; trace::export is called with the
\* identifiers, the output path and the formats
ExportConnects ==
    /\ cli_pc = "export"
    /\ ~ export_formats(config_formats).invalid
    /\ Len(rooms) > 0
    /\ get(sessions, add_at_to_user_id_if_applicable(config_user_id)).tag = "Ok"
    /\ formats' = export_formats(config_formats).formats
    /\ cli_calls' = cli_calls \o <<"nonfirst_login", "sync_once", "export">>
    /\ pc' = "start"
    /\ cli_pc' = "exporting"
    /\ UNCHANGED <<library_vars, session_vars, stdout, config_user_id, config_formats,
                   cli_result>>

\* a plausible slip: the rooms that got files are counted
ExportReturns_CountsExported ==
    /\ cli_pc = "exporting"
    /\ pc = "done"
    /\ IF result = "Ok"
       THEN /\ stdout' = Append(stdout,
                   Report(EXPORTED, Cardinality({writes[w].iteration : w \in 1..Len(writes)})))
            /\ cli_result' = "Ok"
       ELSE /\ UNCHANGED stdout
            /\ cli_result' = IF result = "Panic" THEN "Panic" ELSE "Err"
    /\ cli_pc' = "exported"
    /\ UNCHANGED <<library_vars, session_vars, formats, pc, config_user_id, config_formats,
                   cli_calls>>

\* lines 240-244: trace::export has returned; `?` passes its error on, a panic
\* ends the process, Ok is reported with export_room_count
ExportReturns ==
    /\ cli_pc = "exporting"
    /\ pc = "done"
    /\ IF result = "Ok"
       THEN /\ stdout' = Append(stdout, Report(EXPORTED, Len(rooms)))
            /\ cli_result' = "Ok"
       ELSE /\ UNCHANGED stdout
            /\ cli_result' = IF result = "Panic" THEN "Panic" ELSE "Err"
    /\ cli_pc' = "exported"
    /\ UNCHANGED <<library_vars, session_vars, formats, pc, config_user_id, config_formats,
                   cli_calls>>

\* lines 287-290: the account already has a session; panic
SessionLoginPanics ==
    /\ cli_pc = "session_login"
    /\ get(sessions, add_at_to_user_id_if_applicable(config_user_id)).tag = "Ok"
    /\ cli_result' = "Panic"
    /\ cli_pc' = "login_ended"
    /\ UNCHANGED <<library_vars, session_vars, formats, pc, stdout, config_user_id,
                   config_formats, cli_calls>>

\* lines 292-299: the password is read; building the client or the login of
\* first_login (lib.rs:193) fails and `?` returns the error
SessionLoginFails ==
    /\ cli_pc = "session_login"
    /\ get(sessions, add_at_to_user_id_if_applicable(config_user_id)).tag = "Err"
    /\ \E made \in {<<"read_password", "build">>, <<"read_password", "build", "first_login">>} :
          cli_calls' = cli_calls \o made
    /\ cli_result' = "Err"
    /\ cli_pc' = "login_ended"
    /\ UNCHANGED <<library_vars, session_vars, formats, pc, stdout, config_user_id,
                   config_formats>>

\* lines 292-303 with first_login (lib.rs:187-204): the server logs the
\* account in on a new device and the session is stored
SessionLoginStores ==
    /\ cli_pc = "session_login"
    /\ get(sessions, add_at_to_user_id_if_applicable(config_user_id)).tag = "Err"
    /\ \E device_id \in {DEVICE_1, DEVICE_2} :
          LET session == Session(add_at_to_user_id_if_applicable(config_user_id), device_id)
              outcome == new_session(sessions, session)
          IN  /\ Write(outcome)
              /\ store_call' = StoreCall("new_session", session, outcome.returned)
              /\ cli_result' = IF outcome.returned.tag = "Ok" THEN "Ok" ELSE "Panic"
    /\ cli_calls' = cli_calls \o <<"read_password", "build", "first_login">>
    /\ cli_pc' = "login_ended"
    /\ UNCHANGED <<library_vars, formats, pc, stdout, config_user_id, config_formats>>

NextCli ==
    \/ ExportFormatPanics
    \/ ExportNothing
    \/ ExportLoginPanics
    \/ ExportConnectFails
    \/ ExportConnects
    \/ Next
    \/ ExportReturns
    \/ SessionLoginPanics
    \/ SessionLoginFails
    \/ SessionLoginStores

SpecCli == InitCli /\ [][NextCli]_vars

---------------------------------------------------------------------------
(* Claims about the command line *)

\* the flag is the word, letter by letter, in either case
SameLetter(c, letter) ==
    \/ c = letter
    \/ <<c, letter>> \in {<<"J", "j">>, <<"S", "s">>, <<"O", "o">>, <<"N", "n">>,
                          <<"T", "t">>, <<"X", "x">>}
Spells(flag, word) ==
    /\ Len(flag) = Len(word)
    /\ \A i \in 1..Len(word) : SameLetter(flag[i], word[i])
AcceptedAs(flag, format) ==
    IF format = "Json"
    THEN Spells(flag, <<"j", "s", "o", "n">>) \/ Spells(flag, <<".", "j", "s", "o", "n">>)
    ELSE Spells(flag, <<"t", "x", "t">>) \/ Spells(flag, <<".", "t", "x", "t">>)
Accepted(flag) == AcceptedAs(flag, "Json") \/ AcceptedAs(flag, "Txt")
AllFlagsAccepted == \A k \in 1..Len(config_formats) : Accepted(config_formats[k])
EndedAtTheFlags == cli_pc = "exported" /\ cli_result = "Panic" /\ cli_calls = <<>>

\* C22: a command line with an invalid format flag, and a login for an
\* account that already has a stored session, end with an error value
\* returned to the caller, not with a panic.
C22_MalformedInputIsAnError ==
    /\ (cli_pc = "exported" /\ ~ AllFlagsAccepted) => cli_result = "Err"
    /\ (/\ cli_pc = "login_ended"
        /\ disk_writes = 0
        /\ Stored(sessions, add_at_to_user_id_if_applicable(config_user_id))) =>
          cli_result = "Err"

\* C23: the set of formats trace::export is called with is never empty: it
\* is {Json} when no flag was given, and otherwise holds a format exactly
\* when one of the flags spells it ("json", ".json", "txt", ".txt" in any
\* case), however often; flags that are all accepted do not stop the command.
C23_FormatsNeverEmpty ==
    /\ pc # "none" =>
          /\ formats # {}
          /\ AllFlagsAccepted
          /\ config_formats = <<>> => formats = {"Json"}
          /\ config_formats # <<>> =>
                \A format \in {"Json", "Txt"} :
                    format \in formats <=>
                        \E k \in 1..Len(config_formats) : AcceptedAs(config_formats[k], format)
    /\ AllFlagsAccepted => ~ EndedAtTheFlags

\* C23 witness: both formats were asked for, in upper and mixed case, and
\* export ran with both
C23_Witness ==
    /\ pc = "done"
    /\ config_formats = <<FLAG_DOT_JSON, FLAG_TXT>>
    /\ formats = {"Json", "Txt"}
    /\ Len(writes) = 2

\* C23 witness of the default and of a repeated flag
C23_WitnessDefault ==
    /\ pc = "done"
    /\ config_formats = <<>>
    /\ formats = {"Json"}
    /\ Len(writes) = 1

C29_WitnessNothing ==
    /\ cli_pc = "exported"
    /\ Len(rooms) = 0
    /\ cli_result = "Ok"

====
